---- MODULE Spec2Model ----
(***************************************************************************)
(* A model of pyrsia's ArtifactService (src/artifact_service/service.rs).  *)
(*                                                                         *)
(* The service composes four collaborators: the artifact storage, the      *)
(* transparency log service, the build event client and the p2p client.    *)
(* Their code is not part of service.rs; they are modelled by contract.    *)
(* Every public operation of the service is an async fn: it is modelled as *)
(* a task that advances one collaborator call at a time (the places where  *)
(* the task can be suspended or overtaken by another task), with the pure  *)
(* computation between two calls folded into the step that precedes it.    *)
(***************************************************************************)
EXTENDS Integers, Sequences, FiniteSets, TLC

\* ------------------------------------------------------------------ bounds

\* Number of operations started in one behaviour (calls of the service by
\* its callers, and changes of the authorized nodes by the log layer).
MaxOps == 3

\* The numbers of artifacts a build result may declare.
ArtifactCounts == {0, 1, 2}

\* The builds whose results arrive; each build completes once.
BuildIds == {"build1"}

\* The builds whose results arrive when two builds were dispatched.
RaceBuildIds == BuildIds \cup {"build2"}

\* ----------------------------------------------------------------- domains

PackageTypes == {"Docker", "Maven2"}

PackageSpecificIds == {"package_specific_id"}

PackageSpecificArtifactIds == {"a1", "a2"}

Blobs == {"SAMPLE_DATA", "OTHER_SAMPLE_DATA"}

local_peer_id == "local"

PeerIds == {local_peer_id, "peerA", "peerB"}

\* What list_providers may answer.
ProviderSets == {{}, {"peerA", "peerB"}}

\* Files a build leaves behind: artifact_location -> content (none: no file).
Locations == {"/build/sample", "/build/other", "/build/missing"}

BuildIdStrings == {"build_start_ok", "request_build_ok"}

\* Status strings a build reports.
BuildStatuses == {"RUNNING", "SUCCESS"}

\* Tasks that call the service, and the runtime task of detached builds.
Callers == {"t1"}

\* A second caller, where calls of two tasks run concurrently.
OtherCallers == {"t2"}

AllCallers == Callers \cup OtherCallers

Background == "bg"

Tasks == AllCallers \cup {Background}

\* ----------------------------------------------------------- pure helpers

Range(s) == {s[i] : i \in 1..Len(s)}

Min(S) == CHOOSE x \in S : \A y \in S : x <= y

Last(s) == s[Len(s)]

\* multihash::Sha2_256 over the whole blob. The digest is cut to its first
\* two bytes (of the real SHA-256 of these two blobs); distinct blobs have
\* distinct digests.
Sha2_256(bytes) ==
    CASE bytes = "SAMPLE_DATA" -> <<240, 16>>
      [] bytes = "OTHER_SAMPLE_DATA" -> <<220, 250>>
      [] OTHER -> <<227, 176>>

HexDigits == <<"0", "1", "2", "3", "4", "5", "6", "7",
               "8", "9", "a", "b", "c", "d", "e", "f">>

RECURSIVE HexEncode(_)
\* hex::encode: two lowercase hex digits per byte.
HexEncode(digest) ==
    IF digest = <<>> THEN ""
    ELSE HexDigits[(Head(digest) \div 16) + 1] \o HexDigits[(Head(digest) % 16) + 1]
         \o HexEncode(Tail(digest))

\* The artifact_hash strings a build result may declare: the lowercase hex
\* digest of either blob, or an uppercase spelling of one of them.
DeclaredHashes == {HexEncode(Sha2_256(b)) : b \in Blobs} \cup {"F010"}

\* Result<T, E> values. val is the Ok payload; err the error.
NoErr == [kind |-> "", info |-> <<>>]

Ok(v) == [ok |-> TRUE, val |-> v, err |-> NoErr]

Err(kind, info) == [ok |-> FALSE, val |-> "", err |-> [kind |-> kind, info |-> info]]

NoResult == [ok |-> FALSE, val |-> "", err |-> [kind |-> "none", info |-> <<>>]]

Call(fn, arg, out) == [fn |-> fn, arg |-> arg, out |-> out]

\* ------------------------------------------------------------------- state

VARIABLES
    tlog,       \* transparency log: the sequence of entries, oldest first
    nodes,      \* transparency log: the authorized nodes, in iteration order
    storage,    \* artifact storage: artifact_id -> blob, for the stored ids
    spawned,    \* runtime: detached request_build tasks not yet started
    pc,         \* per task: the call the task makes next ("idle": none)
    loc,        \* per task: the local variables of the running operation
    calls,      \* per task: the collaborator calls of the current operation
    ret,        \* per task: what the last finished operation returned
    nops,       \* number of operations started so far
    handled     \* the builds whose result was handed to handle_build_result

vars == <<tlog, nodes, storage, spawned, pc, loc, calls, ret, nops, handled>>

NoBuildResult ==
    [package_type |-> "", package_specific_id |-> "", num_artifacts |-> 0, artifacts |-> <<>>]

\* The locals of an operation before it has assigned any of them.
InitLoc ==
    [op |-> "", package_type |-> "", package_specific_id |-> "",
     package_specific_artifact_id |-> "", artifact_id |-> "",
     transparency_log |-> <<>>, providers |-> {}, peer_id |-> "",
     artifact |-> "", result |-> NoResult,
     build_id |-> "", build_result |-> NoBuildResult, i |-> 0, payloads |-> <<>>,
     paths |-> <<>>, applied |-> 0, fetched |-> ""]

Init ==
    /\ tlog = <<>>
    /\ nodes = <<>>
    /\ storage = [id \in {} |-> ""]
    /\ spawned = <<>>
    /\ pc = [t \in Tasks |-> "idle"]
    /\ loc = [t \in Tasks |-> InitLoc]
    /\ calls = [t \in Tasks |-> <<>>]
    /\ ret = [t \in Tasks |-> NoResult]
    /\ nops = 0
    /\ handled = {}

\* ------------------------------------------- transparency log (by contract)

\* The artifact_id the log assigns to its n-th entry.
ArtifactIdOf(n) == "id" \o ToString(n)

\* get_artifact(package_type, package_specific_artifact_id): the entry, if any.
TLogGetArtifact(log, package_type, package_specific_artifact_id) ==
    LET hits == {i \in 1..Len(log) :
                    /\ log[i].package_type = package_type
                    /\ log[i].package_specific_artifact_id = package_specific_artifact_id}
    IN IF hits = {} THEN <<>> ELSE <<log[Min(hits)]>>

\* search_transparency_logs(package_type, package_specific_id).
TLogSearch(log, package_type, package_specific_id) ==
    SelectSeq(log, LAMBDA e : /\ e.package_type = package_type
                              /\ e.package_specific_id = package_specific_id)

\* verify_package_can_be_added_to_transparency_logs: no entry of the package yet.
TLogPackageCanBeAdded(log, package_type, package_specific_id) ==
    TLogSearch(log, package_type, package_specific_id) = <<>>

\* add_artifact(request): the entry the log creates for the request.
TLogNewEntry(log, req) ==
    [artifact_id |-> ArtifactIdOf(Len(log) + 1),
     package_type |-> req.package_type,
     package_specific_id |-> req.package_specific_id,
     num_artifacts |-> req.num_artifacts,
     package_specific_artifact_id |-> req.package_specific_artifact_id,
     artifact_hash |-> req.artifact_hash]

\* add_artifact refuses a second entry for (package_type, package_specific_artifact_id).
TLogArtifactCanBeAdded(log, req) ==
    TLogGetArtifact(log, req.package_type, req.package_specific_artifact_id) = <<>>

\* write_if_not_exists(entry): the entry is written unless the log already
\* has an entry for its (package_type, package_specific_artifact_id).
TLogWriteIfNotExists(log, entry) ==
    IF TLogGetArtifact(log, entry.package_type, entry.package_specific_artifact_id) # <<>>
    THEN log
    ELSE Append(log, entry)

\* write(entry): the entry is written.
TLogWrite(log, entry) == Append(log, entry)

\* ------------------------------------------------ artifact storage (by contract)

\* pull_artifact(artifact_id): the blob, if one is stored under the id.
StoragePull(st, artifact_id) ==
    IF artifact_id \in DOMAIN st THEN <<st[artifact_id]>> ELSE <<>>

\* push_artifact(reader, artifact_id): the blob is stored under the id.
StoragePush(st, artifact_id, bytes) ==
    [id \in DOMAIN st \cup {artifact_id} |-> IF id = artifact_id THEN bytes ELSE st[id]]

\* put_artifact(artifact_id, reader): push the reader's bytes to the storage.
put_artifact(st, artifact_id, bytes) == StoragePush(st, artifact_id, bytes)

\* The path of the file that holds the blob of artifact_id.
StoragePath(artifact_id) == <<artifact_id, "file">>

\* Path::file_stem: the file name without its extension.
FileStem(path) == path[1]

\* list_artifacts(): the paths of the stored files, in the order the
\* directory yields them (any order, each file once).
StorageList(st) ==
    {paths \in [1..Cardinality(DOMAIN st) -> {StoragePath(id) : id \in DOMAIN st}] :
        \A j, k \in 1..Cardinality(DOMAIN st) : paths[j] = paths[k] => j = k}

\* The artifact ids a caller may name: those the log has assigned.
LoggedArtifactIds == {tlog[i].artifact_id : i \in 1..Len(tlog)}

\* --------------------------------------------------------- verify_artifact

NotAvailable(artifact_id) == Err("NotAvailableOnNetwork", <<artifact_id>>)

\* verify_artifact without the comparison.
verify_artifact_unchecked(transparency_log, artifact) == Ok("")

\* verify_artifact with the two hashes of the error the other way round.
verify_artifact_swapped(transparency_log, artifact) ==
    LET calculated_hash == HexEncode(Sha2_256(artifact))
    IN IF transparency_log.artifact_hash = calculated_hash
       THEN Ok("")
       ELSE Err("InvalidHash", <<transparency_log.package_specific_artifact_id,
                                 transparency_log.artifact_hash,
                                 calculated_hash>>)

verify_artifact(transparency_log, artifact) ==
    LET calculated_hash == HexEncode(Sha2_256(artifact))
    IN IF transparency_log.artifact_hash = calculated_hash
       THEN Ok("")
       ELSE Err("InvalidHash", <<transparency_log.package_specific_artifact_id,
                                 calculated_hash,
                                 transparency_log.artifact_hash>>)

\* ----------------------------------------------- get_artifact and its parts

GetOps == {"get_artifact", "get_artifact_or_build"}

\* A build spawned only when the log has no entry.
SpawnsBuildOnNotFound(op, result) ==
    op = "get_artifact_or_build" /\ ~result.ok /\ result.err.kind = "ArtifactNotFound"

\* get_artifact_or_build's map_err closure runs exactly when get_artifact failed.
SpawnsBuild(op, result) == op = "get_artifact_or_build" /\ ~result.ok

\* What get_artifact_or_build hands back for get_artifact's result.
OrBuildResult(result) == result

\* The operation of task t returns `result`; l are its locals and cs its calls.
\* For get_artifact_or_build this is where the detached build is spawned.
Return(t, result, l, cs) ==
    LET spawn == SpawnsBuild(l.op, result)
        out == IF l.op = "get_artifact_or_build" THEN OrBuildResult(result) ELSE result
    IN /\ pc' = [pc EXCEPT ![t] = "idle"]
       /\ ret' = [ret EXCEPT ![t] = out]
       /\ loc' = [loc EXCEPT ![t] = [l EXCEPT !.result = result]]
       /\ calls' = [calls EXCEPT ![t] =
                       IF spawn THEN Append(cs, Call("tokio.spawn", l.package_specific_id, ""))
                       ELSE cs]
       /\ spawned' = IF spawn
                     THEN Append(spawned, [package_type |-> l.package_type,
                                           package_specific_id |-> l.package_specific_id])
                     ELSE spawned

\* The task goes on to its next call; it has returned nothing yet.
Goto(t, label, l, cs) ==
    /\ pc' = [pc EXCEPT ![t] = label]
    /\ loc' = [loc EXCEPT ![t] = l]
    /\ calls' = [calls EXCEPT ![t] = cs]
    /\ ret' = [ret EXCEPT ![t] = NoResult]
    /\ UNCHANGED spawned

\* A caller task starts an operation.
CanStart(t) == t \in AllCallers /\ pc[t] = "idle" /\ nops < MaxOps

\* The bytes returned as they were obtained.
ReturnUnverified(t, l, cs) == Return(t, Ok(l.artifact), l, cs)

\* get_artifact, after the bytes were obtained: verify them, return them.
VerifyAndReturn(t, l, cs) ==
    LET v == verify_artifact(l.transparency_log[1], l.artifact)
    IN Return(t, IF v.ok THEN Ok(l.artifact) ELSE v, l, cs)

\* The lookup that probes the local storage before it reports a miss.
GetArtifactLookupProbesStorage(t, l) ==
    LET found == TLogGetArtifact(tlog, l.package_type, l.package_specific_artifact_id)
        cs == <<Call("tlog.get_artifact", l.package_specific_artifact_id, "")>>
    IN /\ CanStart(t)
       /\ nops' = nops + 1
       /\ IF found = <<>>
          THEN Return(t, Err("ArtifactNotFound", <<l.package_specific_artifact_id>>), l,
                      Append(cs, Call("storage.pull", l.package_specific_artifact_id, "")))
          ELSE Goto(t, "ga_local",
                    [l EXCEPT !.transparency_log = found,
                              !.artifact_id = found[1].artifact_id], cs)
       /\ UNCHANGED <<tlog, nodes, storage, handled>>

\* get_artifact: the lookup of the transparency log entry.
GetArtifactLookup(t, l) ==
    LET found == TLogGetArtifact(tlog, l.package_type, l.package_specific_artifact_id)
        cs == <<Call("tlog.get_artifact", l.package_specific_artifact_id, "")>>
    IN /\ CanStart(t)
       /\ nops' = nops + 1
       /\ IF found = <<>>
          THEN Return(t, Err("ArtifactNotFound", <<l.package_specific_artifact_id>>), l, cs)
          ELSE Goto(t, "ga_local",
                    [l EXCEPT !.transparency_log = found,
                              !.artifact_id = found[1].artifact_id], cs)
       /\ UNCHANGED <<tlog, nodes, storage, handled>>

GetArtifact(t, package_type, package_specific_artifact_id) ==
    GetArtifactLookup(t, [InitLoc EXCEPT
        !.op = "get_artifact",
        !.package_type = package_type,
        !.package_specific_artifact_id = package_specific_artifact_id])

GetArtifactOrBuild(t, package_type, package_specific_id, package_specific_artifact_id) ==
    GetArtifactLookup(t, [InitLoc EXCEPT
        !.op = "get_artifact_or_build",
        !.package_type = package_type,
        !.package_specific_id = package_specific_id,
        !.package_specific_artifact_id = package_specific_artifact_id])

\* The local read skipped: every get goes to the peers.
GetArtifactLocalSkipped(t) ==
    /\ pc[t] = "ga_local"
    /\ Goto(t, "gp_list", loc[t], calls[t])
    /\ UNCHANGED <<tlog, nodes, storage, nops, handled>>

\* A local blob that fails verification is fetched again from the peers.
GetArtifactLocalRefetches(t) ==
    LET l == loc[t]
        blob == StoragePull(storage, l.artifact_id)
        cs == Append(calls[t], Call("storage.pull", l.artifact_id, ""))
    IN /\ pc[t] = "ga_local"
       /\ IF blob # <<>> /\ verify_artifact(l.transparency_log[1], blob[1]).ok
          THEN VerifyAndReturn(t, [l EXCEPT !.artifact = blob[1]], cs)
          ELSE Goto(t, "gp_list", l, cs)
       /\ UNCHANGED <<tlog, nodes, storage, nops, handled>>

\* get_artifact: the local read; a miss falls through to the peers.
GetArtifactLocal(t) ==
    LET l == loc[t]
        blob == StoragePull(storage, l.artifact_id)
        cs == Append(calls[t], Call("storage.pull", l.artifact_id, ""))
    IN /\ pc[t] = "ga_local"
       /\ IF blob # <<>>
          THEN VerifyAndReturn(t, [l EXCEPT !.artifact = blob[1]], cs)
          ELSE Goto(t, "gp_list", l, cs)
       /\ UNCHANGED <<tlog, nodes, storage, nops, handled>>

\* get_artifact_locally called on its own.
GetArtifactLocally(t, artifact_id) ==
    LET l == [InitLoc EXCEPT !.op = "get_artifact_locally", !.artifact_id = artifact_id]
        blob == StoragePull(storage, artifact_id)
        cs == <<Call("storage.pull", artifact_id, "")>>
    IN /\ CanStart(t)
       /\ nops' = nops + 1
       /\ IF blob # <<>>
          THEN Return(t, Ok(blob[1]), [l EXCEPT !.artifact = blob[1]], cs)
          ELSE Return(t, Err("StorageIo", <<artifact_id>>), l, cs)
       /\ UNCHANGED <<tlog, nodes, storage, handled>>

\* get_artifact_from_peers called on its own.
GetArtifactFromPeers(t, artifact_id) ==
    /\ CanStart(t)
    /\ nops' = nops + 1
    /\ Goto(t, "gp_list",
            [InitLoc EXCEPT !.op = "get_artifact_from_peers", !.artifact_id = artifact_id],
            <<>>)
    /\ UNCHANGED <<tlog, nodes, storage, handled>>

\* get_artifact_from_peers: list_providers.
ListProviders(t) ==
    LET l == loc[t]
        cs == Append(calls[t], Call("p2p.list_providers", l.artifact_id, ""))
    IN /\ pc[t] = "gp_list"
       /\ \/ \E providers \in ProviderSets :
                Goto(t, "gp_idle", [l EXCEPT !.providers = providers], cs)
          \/ Return(t, Err("Transport", <<"list_providers">>), l, cs)
       /\ UNCHANGED <<tlog, nodes, storage, nops, handled>>

\* get_artifact_from_peers: get_idle_peer; no idle peer is not-available.
GetIdlePeer(t) ==
    LET l == loc[t]
        cs == Append(calls[t], Call("p2p.get_idle_peer", l.artifact_id, ""))
    IN /\ pc[t] = "gp_idle"
       /\ \/ \E peer_id \in l.providers :
                Goto(t, "gp_request", [l EXCEPT !.peer_id = peer_id, !.providers = {}], cs)
          \/ Return(t, NotAvailable(l.artifact_id), l, cs)
          \/ Return(t, Err("Transport", <<"get_idle_peer">>), l, cs)
       /\ UNCHANGED <<tlog, nodes, storage, nops, handled>>

\* A failed request_artifact starts over with the providers.
RequestArtifactRetries(t) ==
    LET l == loc[t]
        cs == Append(calls[t], Call("p2p.request_artifact", l.peer_id, l.artifact_id))
    IN /\ pc[t] = "gp_request"
       /\ \/ \E bytes \in Blobs :
                Goto(t, "gp_put", [l EXCEPT !.artifact = bytes], cs)
          \/ Goto(t, "gp_list", l, cs)
       /\ UNCHANGED <<tlog, nodes, storage, nops, handled>>

\* get_artifact_from_peer: request_artifact; the peer answers with any bytes
\* (fetched keeps them: artifact is assigned again by the re-read).
RequestArtifact(t) ==
    LET l == loc[t]
        cs == Append(calls[t], Call("p2p.request_artifact", l.peer_id, l.artifact_id))
    IN /\ pc[t] = "gp_request"
       /\ \/ \E bytes \in Blobs :
                Goto(t, "gp_put", [l EXCEPT !.artifact = bytes, !.fetched = bytes], cs)
          \/ Return(t, Err("Transport", <<"request_artifact">>), l, cs)
       /\ UNCHANGED <<tlog, nodes, storage, nops, handled>>

\* No write-through: the bytes the peer sent are handed back as they came.
PutPeerArtifactNotStored(t) ==
    LET l == loc[t]
    IN /\ pc[t] = "gp_put"
       /\ IF l.op \in GetOps
          THEN VerifyAndReturn(t, l, calls[t])
          ELSE Return(t, Ok(l.artifact), l, calls[t])
       /\ UNCHANGED <<tlog, nodes, storage, nops, handled>>

\* get_artifact_from_peer: put_artifact of the bytes the peer sent.
PutPeerArtifact(t) ==
    LET l == loc[t]
        cs == Append(calls[t], Call("storage.push", l.artifact_id, ""))
    IN /\ pc[t] = "gp_put"
       /\ \/ /\ storage' = put_artifact(storage, l.artifact_id, l.artifact)
             /\ Goto(t, "gp_reread", l, cs)
          \/ /\ UNCHANGED storage
             /\ Return(t, Err("StorageIo", <<"Error from put_artifact">>), l, cs)
       /\ UNCHANGED <<tlog, nodes, nops, handled>>

\* Bytes that fail the verification are deleted from the storage again.
RereadPeerArtifactDiscardsInvalid(t) ==
    LET l == loc[t]
        blob == StoragePull(storage, l.artifact_id)
        cs == Append(calls[t], Call("storage.pull", l.artifact_id, ""))
    IN /\ pc[t] = "gp_reread"
       /\ IF blob = <<>>
          THEN /\ Return(t, Err("StorageIo", <<l.artifact_id>>), l, cs)
               /\ UNCHANGED storage
          ELSE IF l.op \in GetOps
               THEN /\ VerifyAndReturn(t, [l EXCEPT !.artifact = blob[1]], cs)
                    /\ storage' = IF verify_artifact(l.transparency_log[1], blob[1]).ok
                                  THEN storage
                                  ELSE [id \in DOMAIN storage \ {l.artifact_id} |-> storage[id]]
               ELSE /\ Return(t, Ok(blob[1]), [l EXCEPT !.artifact = blob[1]], cs)
                    /\ UNCHANGED storage
       /\ UNCHANGED <<tlog, nodes, nops, handled>>

\* get_artifact_from_peer: the re-read from local storage; get_artifact then
\* verifies what was read.
RereadPeerArtifact(t) ==
    LET l == loc[t]
        blob == StoragePull(storage, l.artifact_id)
        cs == Append(calls[t], Call("storage.pull", l.artifact_id, ""))
    IN /\ pc[t] = "gp_reread"
       /\ IF blob = <<>>
          THEN Return(t, Err("StorageIo", <<l.artifact_id>>), l, cs)
          ELSE IF l.op \in GetOps
               THEN VerifyAndReturn(t, [l EXCEPT !.artifact = blob[1]], cs)
               ELSE Return(t, Ok(blob[1]), [l EXCEPT !.artifact = blob[1]], cs)
       /\ UNCHANGED <<tlog, nodes, storage, nops, handled>>

\* ------------------------------------------------------ handle_build_result

\* The content of the file at artifact_location, if there is one.
FileContent(artifact_location) ==
    CASE artifact_location = "/build/sample" -> <<"SAMPLE_DATA">>
      [] artifact_location = "/build/other" -> <<"OTHER_SAMPLE_DATA">>
      [] OTHER -> <<>>

\* The artifacts a build result may declare: the declared hash is the digest
\* of the file, or of another blob, or is spelled in uppercase, or the file
\* is not there.
BuildArtifacts ==
    {a \in [artifact_specific_id : PackageSpecificArtifactIds,
            artifact_hash : DeclaredHashes,
            artifact_location : Locations] :
        <<a.artifact_hash, a.artifact_location>> \in
            {<<HexEncode(Sha2_256("SAMPLE_DATA")), "/build/sample">>,
             <<HexEncode(Sha2_256("SAMPLE_DATA")), "/build/other">>,
             <<HexEncode(Sha2_256("SAMPLE_DATA")), "/build/missing">>,
             <<"F010", "/build/sample">>}}

\* The request that counts the artifacts seen so far.
AddArtifactRequestCountsSoFar(build_result, i) ==
    [package_type |-> build_result.package_type,
     package_specific_id |-> build_result.package_specific_id,
     num_artifacts |-> i,
     package_specific_artifact_id |-> build_result.artifacts[i].artifact_specific_id,
     artifact_hash |-> build_result.artifacts[i].artifact_hash]

\* The request handle_build_result makes of artifact i of the build result.
AddArtifactRequest(build_result, i) ==
    [package_type |-> build_result.package_type,
     package_specific_id |-> build_result.package_specific_id,
     num_artifacts |-> build_result.num_artifacts,
     package_specific_artifact_id |-> build_result.artifacts[i].artifact_specific_id,
     artifact_hash |-> build_result.artifacts[i].artifact_hash]

\* The broadcast payload add_artifact returns with an entry: the entry, serialized.
Payload(entry) == <<"json", entry>>

\* The broadcast made right away, whatever is left to do.
AfterArtifactBroadcastsEarly(num_artifacts, i) == "hbr_broadcast"

\* The call handle_build_result makes after artifact i is done.
AfterArtifact(num_artifacts, i) ==
    IF i < num_artifacts THEN "hbr_add" ELSE "hbr_broadcast"

\* handle_build_result(build_id, build_result). The build result's artifacts
\* are read one per loop iteration, so the model draws artifact i when the
\* loop reaches it; num_artifacts is build_result.artifacts.len().
HandleBuildResult(t, build_id, package_type, package_specific_id, num_artifacts) ==
    /\ CanStart(t)
    /\ build_id \notin handled
    /\ handled' = handled \cup {build_id}
    /\ nops' = nops + 1
    /\ Goto(t, AfterArtifact(num_artifacts, 0),
            [InitLoc EXCEPT !.op = "handle_build_result",
                            !.build_id = build_id,
                            !.build_result = [package_type |-> package_type,
                                              package_specific_id |-> package_specific_id,
                                              num_artifacts |-> num_artifacts,
                                              artifacts |-> <<>>],
                            !.package_type = package_type,
                            !.package_specific_id = package_specific_id],
            <<>>)
    /\ UNCHANGED <<tlog, nodes, storage>>

\* add_artifact replacing the entry the log has for the artifact.
AddArtifactReplaces(t) ==
    /\ pc[t] = "hbr_add"
    /\ \E artifact \in BuildArtifacts :
          LET i == loc[t].i + 1
              l == [loc[t] EXCEPT !.i = i,
                                  !.build_result.artifacts = Append(@, artifact)]
              req == AddArtifactRequest(l.build_result, i)
              entry == TLogNewEntry(tlog, req)
              cs == Append(calls[t], Call("tlog.add_artifact",
                                          req.package_specific_artifact_id,
                                          ToString(req.num_artifacts)))
          IN \/ /\ tlog' = Append(SelectSeq(tlog, LAMBDA e :
                                    ~(/\ e.package_type = req.package_type
                                      /\ e.package_specific_artifact_id =
                                            req.package_specific_artifact_id)), entry)
                /\ Goto(t, "hbr_put",
                        [l EXCEPT !.transparency_log = <<entry>>,
                                  !.artifact_id = entry.artifact_id,
                                  !.payloads = Append(l.payloads, Payload(entry))], cs)
             \/ /\ UNCHANGED tlog
                /\ Return(t, Err("LogIo", <<"add_artifact">>), l, cs)
    /\ UNCHANGED <<nodes, storage, nops, handled>>

\* add_artifact without the duplicate check.
AddArtifactUnchecked(t) ==
    /\ pc[t] = "hbr_add"
    /\ \E artifact \in BuildArtifacts :
          LET i == loc[t].i + 1
              l == [loc[t] EXCEPT !.i = i,
                                  !.build_result.artifacts = Append(@, artifact)]
              req == AddArtifactRequest(l.build_result, i)
              entry == TLogNewEntry(tlog, req)
              cs == Append(calls[t], Call("tlog.add_artifact",
                                          req.package_specific_artifact_id,
                                          ToString(req.num_artifacts)))
          IN \/ /\ tlog' = Append(tlog, entry)
                /\ Goto(t, "hbr_put",
                        [l EXCEPT !.transparency_log = <<entry>>,
                                  !.artifact_id = entry.artifact_id,
                                  !.payloads = Append(l.payloads, Payload(entry))], cs)
             \/ /\ UNCHANGED tlog
                /\ Return(t, Err("LogIo", <<"add_artifact">>), l, cs)
    /\ UNCHANGED <<nodes, storage, nops, handled>>

\* The loop body, first call: add_artifact for the next artifact.
AddArtifact(t) ==
    /\ pc[t] = "hbr_add"
    /\ \E artifact \in BuildArtifacts :
          LET i == loc[t].i + 1
              l == [loc[t] EXCEPT !.i = i,
                                  !.build_result.artifacts = Append(@, artifact)]
              req == AddArtifactRequest(l.build_result, i)
              entry == TLogNewEntry(tlog, req)
              cs == Append(calls[t], Call("tlog.add_artifact",
                                          req.package_specific_artifact_id,
                                          ToString(req.num_artifacts)))
          IN \/ /\ TLogArtifactCanBeAdded(tlog, req)
                /\ tlog' = Append(tlog, entry)
                /\ Goto(t, "hbr_put",
                        [l EXCEPT !.transparency_log = <<entry>>,
                                  !.artifact_id = entry.artifact_id,
                                  !.payloads = Append(l.payloads, Payload(entry))], cs)
             \/ /\ ~TLogArtifactCanBeAdded(tlog, req)
                /\ UNCHANGED tlog
                /\ Return(t, Err("LogDuplicate", <<req.package_specific_artifact_id>>), l, cs)
             \/ /\ UNCHANGED tlog
                /\ Return(t, Err("LogIo", <<"add_artifact">>), l, cs)
    /\ UNCHANGED <<nodes, storage, nops, handled>>

\* A failed store takes the artifact's log entry back.
PutBuildArtifactRollsBack(t) ==
    LET l == loc[t]
        file == FileContent(l.build_result.artifacts[l.i].artifact_location)
        cs == Append(calls[t], Call("storage.push", l.artifact_id, ""))
    IN /\ pc[t] = "hbr_put"
       /\ \/ /\ file = <<>>
             /\ UNCHANGED storage
             /\ tlog' = SelectSeq(tlog, LAMBDA e : e.artifact_id # l.artifact_id)
             /\ Return(t, Err("StorageIo", <<"File::open">>), l, calls[t])
          \/ /\ file # <<>>
             /\ storage' = put_artifact(storage, l.artifact_id, file[1])
             /\ UNCHANGED tlog
             /\ Goto(t, "hbr_provide", l, cs)
          \/ /\ file # <<>>
             /\ UNCHANGED storage
             /\ tlog' = SelectSeq(tlog, LAMBDA e : e.artifact_id # l.artifact_id)
             /\ Return(t, Err("StorageIo", <<"Error from put_artifact">>), l, cs)
       /\ UNCHANGED <<nodes, nops, handled>>

\* put_artifact_from_build_result: open the artifact file, push it to storage.
PutBuildArtifact(t) ==
    LET l == loc[t]
        file == FileContent(l.build_result.artifacts[l.i].artifact_location)
        cs == Append(calls[t], Call("storage.push", l.artifact_id, ""))
    IN /\ pc[t] = "hbr_put"
       /\ \/ /\ file = <<>>
             /\ UNCHANGED storage
             /\ Return(t, Err("StorageIo", <<"File::open">>), l, calls[t])
          \/ /\ file # <<>>
             /\ storage' = put_artifact(storage, l.artifact_id, file[1])
             /\ Goto(t, "hbr_provide", l, cs)
          \/ /\ file # <<>>
             /\ UNCHANGED storage
             /\ Return(t, Err("StorageIo", <<"Error from put_artifact">>), l, cs)
       /\ UNCHANGED <<tlog, nodes, nops, handled>>

\* p2p_client.provide of the new entry's artifact_id.
Provide(t) ==
    LET l == loc[t]
        cs == Append(calls[t], Call("p2p.provide", l.artifact_id, ""))
    IN /\ pc[t] = "hbr_provide"
       /\ \/ Goto(t, AfterArtifact(l.build_result.num_artifacts, l.i), l, cs)
          \/ Return(t, Err("Transport", <<"provide">>), l, cs)
       /\ UNCHANGED <<tlog, nodes, storage, nops, handled>>

\* After the loop: broadcast_artifacts of the accumulated payloads.
BroadcastArtifacts(t) ==
    LET l == loc[t]
        cs == Append(calls[t], Call("tlog.broadcast_artifacts", "", ToString(Len(l.payloads))))
    IN /\ pc[t] = "hbr_broadcast"
       /\ \/ Return(t, Ok(""), l, cs)
          \/ Return(t, Err("Transport", <<"broadcast_artifacts">>), l, cs)
       /\ UNCHANGED <<tlog, nodes, storage, nops, handled>>

\* ------------------------------------------------------------ request_build

\* The first matching node, else the first node.
find_or_first(auth_nodes, local) ==
    IF auth_nodes = <<>> THEN <<>>
    ELSE IF local \in Range(auth_nodes) THEN <<local>> ELSE <<Head(auth_nodes)>>

\* Itertools::find_or_last over the authorized nodes: the first node that is
\* the local peer, else the last node; nothing for no nodes.
find_or_last(auth_nodes, local) ==
    LET hits == {i \in 1..Len(auth_nodes) : local = auth_nodes[i]}
    IN IF auth_nodes = <<>> THEN <<>>
       ELSE IF hits # {} THEN <<auth_nodes[Min(hits)]>>
       ELSE <<Last(auth_nodes)>>

\* request_build called by a caller.
RequestBuild(t, package_type, package_specific_id) ==
    /\ CanStart(t)
    /\ nops' = nops + 1
    /\ Goto(t, "rb_nodes",
            [InitLoc EXCEPT !.op = "request_build",
                            !.package_type = package_type,
                            !.package_specific_id = package_specific_id],
            <<>>)
    /\ UNCHANGED <<tlog, nodes, storage, handled>>

\* The detached request_build is dropped without having run.
SpawnedBuildDropped ==
    /\ pc[Background] = "idle"
    /\ spawned # <<>>
    /\ spawned' = Tail(spawned)
    /\ UNCHANGED <<tlog, nodes, storage, pc, loc, calls, ret, nops, handled>>

\* The runtime starts a detached request_build of get_artifact_or_build.
SpawnedBuildStart ==
    /\ pc[Background] = "idle"
    /\ spawned # <<>>
    /\ spawned' = Tail(spawned)
    /\ pc' = [pc EXCEPT ![Background] = "rb_nodes"]
    /\ loc' = [loc EXCEPT ![Background] =
                  [InitLoc EXCEPT !.op = "request_build",
                                  !.package_type = Head(spawned).package_type,
                                  !.package_specific_id = Head(spawned).package_specific_id]]
    /\ calls' = [calls EXCEPT ![Background] = <<>>]
    /\ ret' = [ret EXCEPT ![Background] = NoResult]
    /\ UNCHANGED <<tlog, nodes, storage, nops, handled>>

\* request_build without the is_empty check.
RequestBuildNodesUnchecked(t) ==
    LET l == loc[t]
        failed == Append(calls[t], Call("tlog.get_authorized_nodes", "", "err"))
        cs == Append(calls[t], Call("tlog.get_authorized_nodes", "", ToString(Len(nodes))))
        selected == find_or_last(nodes, local_peer_id)
    IN /\ pc[t] = "rb_nodes"
       /\ l.op = "request_build"
       /\ \/ Return(t, Err("InitializationFailed", <<"log-read">>), l, failed)
          \/ IF selected = <<>>
             THEN Goto(t, "panicked", l, cs)
             ELSE Goto(t, "rb_verify", [l EXCEPT !.peer_id = selected[1]], cs)
       /\ UNCHANGED <<tlog, nodes, storage, nops, handled>>

\* request_build selecting from the nodes known before the latest was added.
RequestBuildNodesStale(t) ==
    LET l == loc[t]
        known == IF nodes = <<>> THEN <<>> ELSE SubSeq(nodes, 1, Len(nodes) - 1)
        failed == Append(calls[t], Call("tlog.get_authorized_nodes", "", "err"))
        cs == Append(calls[t], Call("tlog.get_authorized_nodes", "", ToString(Len(known))))
        selected == find_or_last(known, local_peer_id)
    IN /\ pc[t] = "rb_nodes"
       /\ l.op = "request_build"
       /\ \/ Return(t, Err("InitializationFailed", <<"log-read">>), l, failed)
          \/ IF known = <<>>
             THEN Return(t, Err("InitializationFailed", <<"No authorized nodes found">>), l, cs)
             ELSE Goto(t, "rb_verify", [l EXCEPT !.peer_id = selected[1]], cs)
       /\ UNCHANGED <<tlog, nodes, storage, nops, handled>>

\* request_build: get_authorized_nodes (the call records how many nodes the
\* log answered, or that it failed), the empty check and the selection.
RequestBuildNodes(t) ==
    LET l == loc[t]
        failed == Append(calls[t], Call("tlog.get_authorized_nodes", "", "err"))
        cs == Append(calls[t], Call("tlog.get_authorized_nodes", "", ToString(Len(nodes))))
        selected == find_or_last(nodes, local_peer_id)
    IN /\ pc[t] = "rb_nodes"
       /\ l.op = "request_build"
       /\ \/ Return(t, Err("InitializationFailed", <<"log-read">>), l, failed)
          \/ IF nodes = <<>>
             THEN Return(t, Err("InitializationFailed", <<"No authorized nodes found">>), l, cs)
             ELSE IF selected = <<>>
                  THEN Goto(t, "panicked", l, cs)
                  ELSE Goto(t, "rb_verify", [l EXCEPT !.peer_id = selected[1]], cs)
       /\ UNCHANGED <<tlog, nodes, storage, nops, handled>>

\* The duplicate check with its answer dropped: the build is dispatched anyway.
RequestBuildVerifyIgnored(t) ==
    LET l == loc[t]
        cs(out) == Append(calls[t], Call("tlog.verify_package_can_be_added",
                                         l.package_specific_id, out))
    IN /\ pc[t] = "rb_verify"
       /\ \/ /\ TLogPackageCanBeAdded(tlog, l.package_type, l.package_specific_id)
             /\ Goto(t, "rb_dispatch", l, cs("ok"))
          \/ /\ ~TLogPackageCanBeAdded(tlog, l.package_type, l.package_specific_id)
             /\ Goto(t, "rb_dispatch", l, cs("already-exists"))
          \/ Return(t, Err("ArtifactAlreadyExists", <<"log-read">>), l, cs("log-read"))
       /\ UNCHANGED <<tlog, nodes, storage, nops, handled>>

\* request_build: the duplicate check (the call records what the log
\* answered); every error of it is mapped to ArtifactAlreadyExists.
RequestBuildVerify(t) ==
    LET l == loc[t]
        cs(out) == Append(calls[t], Call("tlog.verify_package_can_be_added",
                                         l.package_specific_id, out))
    IN /\ pc[t] = "rb_verify"
       /\ \/ /\ TLogPackageCanBeAdded(tlog, l.package_type, l.package_specific_id)
             /\ Goto(t, "rb_dispatch", l, cs("ok"))
          \/ /\ ~TLogPackageCanBeAdded(tlog, l.package_type, l.package_specific_id)
             /\ Return(t, Err("ArtifactAlreadyExists", <<"already-exists">>), l,
                       cs("already-exists"))
          \/ Return(t, Err("ArtifactAlreadyExists", <<"log-read">>), l, cs("log-read"))
       /\ UNCHANGED <<tlog, nodes, storage, nops, handled>>

\* Every build started on this node.
DispatchesAlwaysLocally(local, peer_id) == TRUE

\* request_build: whether the build starts on this node.
DispatchesLocally(local, peer_id) == local = peer_id

\* A dispatched build reserves its package in the log.
RequestBuildDispatchReserves(t) ==
    LET l == loc[t]
        fn == IF local_peer_id = l.peer_id THEN "build.start_build" ELSE "p2p.request_build"
        arg == IF local_peer_id = l.peer_id THEN l.package_specific_id ELSE l.peer_id
        reserved == [artifact_id |-> ArtifactIdOf(Len(tlog) + 1),
                     package_type |-> l.package_type,
                     package_specific_id |-> l.package_specific_id,
                     num_artifacts |-> 0,
                     package_specific_artifact_id |-> "",
                     artifact_hash |-> ""]
    IN /\ pc[t] = "rb_dispatch"
       /\ \E id \in BuildIdStrings :
             Return(t, Ok(id), l, Append(calls[t], Call(fn, arg, id)))
       /\ tlog' = Append(tlog, reserved)
       /\ UNCHANGED <<nodes, storage, nops, handled>>

\* request_build: the dispatch, local or to the selected peer.
RequestBuildDispatch(t) ==
    LET l == loc[t]
    IN /\ pc[t] = "rb_dispatch"
       /\ IF DispatchesLocally(local_peer_id, l.peer_id)
          THEN \/ \E id \in BuildIdStrings :
                     Return(t, Ok(id), l,
                            Append(calls[t], Call("build.start_build", l.package_specific_id, id)))
               \/ Return(t, Err("BuildFailed", <<"start_build">>), l,
                         Append(calls[t], Call("build.start_build", l.package_specific_id, "")))
          ELSE \/ \E id \in BuildIdStrings :
                     Return(t, Ok(id), l,
                            Append(calls[t], Call("p2p.request_build", l.peer_id, id)))
               \/ Return(t, Err("InitializationFailed", <<"transport">>), l,
                         Append(calls[t], Call("p2p.request_build", l.peer_id, "")))
       /\ UNCHANGED <<tlog, nodes, storage, nops, handled>>

\* --------------------------------------------------------- handle_block_added

\* Entries that other nodes committed to the blockchain.
BlockEntries ==
    {[artifact_id |-> "block_" \o id,
      package_type |-> "Docker",
      package_specific_id |-> "package_specific_id",
      num_artifacts |-> 1,
      package_specific_artifact_id |-> id,
      artifact_hash |-> HexEncode(Sha2_256(b))] :
        id \in PackageSpecificArtifactIds, b \in Blobs}

\* The payloads of a block: serialized entries, or bytes that are no entry.
BlockPayloads == {Payload(entry) : entry \in BlockEntries} \cup {<<"garbage">>}

\* The payload lists handle_block_added may be given: zero to two payloads.
BlockPayloadLists ==
    {<<>>} \cup {<<x>> : x \in BlockPayloads}
           \cup {<<x, y>> : x \in BlockPayloads, y \in BlockPayloads}

\* serde_json::from_slice: the entry a payload holds, if it holds one.
Deserialize(payload) ==
    IF Len(payload) = 2 /\ payload[1] = "json" THEN <<payload[2]>> ELSE <<>>

\* History: the number of times in a row, this one included, that the task
\* applies this payload list, every earlier time having returned Ok.
Applied(t, payloads) ==
    IF loc[t].op = "handle_block_added" /\ loc[t].payloads = payloads /\ ret[t].ok
    THEN loc[t].applied + 1
    ELSE 1

\* The first payload taken from any non-empty list.
HandleBlockAddedTakesFirst(t, payloads) ==
    LET l == [InitLoc EXCEPT !.op = "handle_block_added", !.payloads = payloads,
                             !.applied = Applied(t, payloads)]
        found == IF payloads = <<>> THEN <<>> ELSE Deserialize(payloads[1])
        written == [l EXCEPT !.transparency_log = found]
        cs == <<Call("tlog.write_if_not_exists", found[1].artifact_id, found[1].artifact_hash)>>
    IN /\ CanStart(t)
       /\ nops' = nops + 1
       /\ IF payloads # <<>>
          THEN IF found = <<>>
               THEN /\ UNCHANGED tlog
                    /\ Return(t, Err("Deserialize", <<"payload">>), l, <<>>)
               ELSE \/ /\ tlog' = TLogWriteIfNotExists(tlog, found[1])
                       /\ Return(t, Ok(""), written, cs)
                    \/ /\ UNCHANGED tlog
                       /\ Return(t, Err("LogWrite", <<"write_if_not_exists">>), written, cs)
          ELSE /\ UNCHANGED tlog
               /\ Return(t, Ok(""), l, <<>>)
       /\ UNCHANGED <<nodes, storage, handled>>

\* The entry written whether or not the log has it.
HandleBlockAddedAlwaysWrites(t, payloads) ==
    LET l == [InitLoc EXCEPT !.op = "handle_block_added", !.payloads = payloads,
                             !.applied = Applied(t, payloads)]
        found == IF Len(payloads) = 1 THEN Deserialize(payloads[1]) ELSE <<>>
        written == [l EXCEPT !.transparency_log = found]
        cs == <<Call("tlog.write_if_not_exists", found[1].artifact_id, found[1].artifact_hash)>>
    IN /\ CanStart(t)
       /\ nops' = nops + 1
       /\ IF Len(payloads) = 1
          THEN IF found = <<>>
               THEN /\ UNCHANGED tlog
                    /\ Return(t, Err("Deserialize", <<"payload">>), l, <<>>)
               ELSE \/ /\ tlog' = TLogWrite(tlog, found[1])
                       /\ Return(t, Ok(""), written, cs)
                    \/ /\ UNCHANGED tlog
                       /\ Return(t, Err("LogWrite", <<"write_if_not_exists">>), written, cs)
          ELSE /\ UNCHANGED tlog
               /\ Return(t, Ok(""), l, <<>>)
       /\ UNCHANGED <<nodes, storage, handled>>

\* handle_block_added(payloads): a list of exactly one payload is
\* deserialized and written with write_if_not_exists; any other list is
\* dropped. The handler makes one collaborator call, so it is one step.
HandleBlockAdded(t, payloads) ==
    LET l == [InitLoc EXCEPT !.op = "handle_block_added", !.payloads = payloads,
                             !.applied = Applied(t, payloads)]
        found == IF Len(payloads) = 1 THEN Deserialize(payloads[1]) ELSE <<>>
        written == [l EXCEPT !.transparency_log = found]
        cs == <<Call("tlog.write_if_not_exists", found[1].artifact_id, found[1].artifact_hash)>>
    IN /\ CanStart(t)
       /\ nops' = nops + 1
       /\ IF Len(payloads) = 1
          THEN IF found = <<>>
               THEN /\ UNCHANGED tlog
                    /\ Return(t, Err("Deserialize", <<"payload">>), l, <<>>)
               ELSE \/ /\ tlog' = TLogWriteIfNotExists(tlog, found[1])
                       /\ Return(t, Ok(""), written, cs)
                    \/ /\ UNCHANGED tlog
                       /\ Return(t, Err("LogWrite", <<"write_if_not_exists">>), written, cs)
          ELSE /\ UNCHANGED tlog
               /\ Return(t, Ok(""), l, <<>>)
       /\ UNCHANGED <<nodes, storage, handled>>

\* --------------------------------------------------- provide_local_artifacts

\* provide_local_artifacts: list_artifacts; with nothing listed the loop
\* body never runs.
ProvideLocalArtifacts(t) ==
    LET l == [InitLoc EXCEPT !.op = "provide_local_artifacts"]
    IN /\ CanStart(t)
       /\ nops' = nops + 1
       /\ \/ Return(t, Err("StorageIo", <<"list_artifacts">>), l,
                    <<Call("storage.list_artifacts", "", "err")>>)
          \/ \E paths \in StorageList(storage) :
                LET cs == <<Call("storage.list_artifacts", "", ToString(Len(paths)))>>
                IN IF paths = <<>>
                   THEN Return(t, Ok(""), l, cs)
                   ELSE Goto(t, "pla_provide", [l EXCEPT !.paths = paths], cs)
       /\ UNCHANGED <<tlog, nodes, storage, handled>>

\* A failed provide is passed over and the next file is provided.
ProvideLocalContinues(t) ==
    LET i == loc[t].i + 1
        l == [loc[t] EXCEPT !.i = i, !.artifact_id = FileStem(loc[t].paths[i])]
        cs(out) == Append(calls[t], Call("p2p.provide", l.artifact_id, out))
    IN /\ pc[t] = "pla_provide"
       /\ \E out \in {"ok", "err"} :
             IF i < Len(l.paths)
             THEN Goto(t, "pla_provide", l, cs(out))
             ELSE Return(t, Ok(""), l, cs(out))
       /\ UNCHANGED <<tlog, nodes, storage, nops, handled>>

\* provide_local_artifacts: the loop body, provide of the next file's stem.
ProvideLocal(t) ==
    LET i == loc[t].i + 1
        l == [loc[t] EXCEPT !.i = i, !.artifact_id = FileStem(loc[t].paths[i])]
        cs(out) == Append(calls[t], Call("p2p.provide", l.artifact_id, out))
    IN /\ pc[t] = "pla_provide"
       /\ \/ IF i < Len(l.paths)
             THEN Goto(t, "pla_provide", l, cs("ok"))
             ELSE Return(t, Ok(""), l, cs("ok"))
          \/ Return(t, Err("Transport", <<"provide">>), l, cs("err"))
       /\ UNCHANGED <<tlog, nodes, storage, nops, handled>>

\* --------------------------------------------------------- get_build_status

\* get_build_status called by a caller.
GetBuildStatus(t, build_id) ==
    /\ CanStart(t)
    /\ nops' = nops + 1
    /\ Goto(t, "bs_nodes",
            [InitLoc EXCEPT !.op = "get_build_status", !.build_id = build_id], <<>>)
    /\ UNCHANGED <<tlog, nodes, storage, handled>>

\* get_build_status: get_authorized_nodes and the selection. There is no
\* empty check here: with no nodes the selection is None and the task panics.
GetBuildStatusNodes(t) ==
    LET l == loc[t]
        failed == Append(calls[t], Call("tlog.get_authorized_nodes", "", "err"))
        cs == Append(calls[t], Call("tlog.get_authorized_nodes", "", ToString(Len(nodes))))
        selected == find_or_last(nodes, local_peer_id)
    IN /\ pc[t] = "bs_nodes"
       /\ \/ Return(t, Err("BuildStatusFailed", <<"log-read">>), l, failed)
          \/ IF selected = <<>>
             THEN Goto(t, "panicked", l, cs)
             ELSE Goto(t, "bs_dispatch", [l EXCEPT !.peer_id = selected[1]], cs)
       /\ UNCHANGED <<tlog, nodes, storage, nops, handled>>

\* The status always asked of the selected peer over the network.
GetBuildStatusDispatchRemoteOnly(t) ==
    LET l == loc[t]
    IN /\ pc[t] = "bs_dispatch"
       /\ \/ \E status \in BuildStatuses :
                Return(t, Ok(status), l,
                       Append(calls[t], Call("p2p.request_build_status", l.peer_id, status)))
          \/ Return(t, Err("BuildStatusFailed", <<"transport">>), l,
                    Append(calls[t], Call("p2p.request_build_status", l.peer_id, "")))
       /\ UNCHANGED <<tlog, nodes, storage, nops, handled>>

\* get_build_status: the query, local or to the selected peer.
GetBuildStatusDispatch(t) ==
    LET l == loc[t]
    IN /\ pc[t] = "bs_dispatch"
       /\ IF DispatchesLocally(local_peer_id, l.peer_id)
          THEN \/ \E status \in BuildStatuses :
                     Return(t, Ok(status), l,
                            Append(calls[t], Call("build.get_build_status", l.build_id, status)))
               \/ Return(t, Err("BuildFailed", <<"get_build_status">>), l,
                         Append(calls[t], Call("build.get_build_status", l.build_id, "")))
          ELSE \/ \E status \in BuildStatuses :
                     Return(t, Ok(status), l,
                            Append(calls[t], Call("p2p.request_build_status", l.peer_id, status)))
               \/ Return(t, Err("BuildStatusFailed", <<"transport">>), l,
                         Append(calls[t], Call("p2p.request_build_status", l.peer_id, "")))
       /\ UNCHANGED <<tlog, nodes, storage, nops, handled>>

\* The log layer learns of another authorized node (add_authorized_node).
AddAuthorizedNode(peer_id) ==
    /\ nops < MaxOps
    /\ peer_id \notin Range(nodes)
    /\ nodes' = Append(nodes, peer_id)
    /\ nops' = nops + 1
    /\ UNCHANGED <<tlog, storage, spawned, pc, loc, calls, ret, handled>>

\* ------------------------------------------------------------ specification

Next ==
    \/ \E t \in Callers, package_type \in PackageTypes,
          package_specific_artifact_id \in PackageSpecificArtifactIds :
          \/ GetArtifact(t, package_type, package_specific_artifact_id)
          \/ \E package_specific_id \in PackageSpecificIds :
                GetArtifactOrBuild(t, package_type, package_specific_id,
                                   package_specific_artifact_id)
    \/ \E t \in Callers, artifact_id \in LoggedArtifactIds \cup {"id0"} :
          GetArtifactLocally(t, artifact_id)
    \/ \E t \in Callers, artifact_id \in LoggedArtifactIds :
          GetArtifactFromPeers(t, artifact_id)
    \/ \E t \in Callers, package_type \in PackageTypes,
          package_specific_id \in PackageSpecificIds, num_artifacts \in ArtifactCounts,
          build_id \in BuildIds :
          HandleBuildResult(t, build_id, package_type, package_specific_id, num_artifacts)
    \/ \E t \in Callers, package_type \in PackageTypes,
          package_specific_id \in PackageSpecificIds :
          RequestBuild(t, package_type, package_specific_id)
    \/ SpawnedBuildStart
    \/ \E peer_id \in PeerIds : AddAuthorizedNode(peer_id)
    \/ \E t \in Tasks :
          \/ GetArtifactLocal(t)
          \/ ListProviders(t)
          \/ GetIdlePeer(t)
          \/ RequestArtifact(t)
          \/ PutPeerArtifact(t)
          \/ RereadPeerArtifact(t)
          \/ AddArtifact(t)
          \/ PutBuildArtifact(t)
          \/ Provide(t)
          \/ BroadcastArtifacts(t)
          \/ RequestBuildNodes(t)
          \/ RequestBuildVerify(t)
          \/ RequestBuildDispatch(t)

Spec == Init /\ [][Next]_vars

\* The dispatch selection on its own: the log starts with any authorized
\* nodes (each peer at most once, in any order) and they do not change.
NodeSeqs ==
    {s \in UNION {[1..k -> PeerIds] : k \in 0..Cardinality(PeerIds)} :
        \A i, j \in 1..Len(s) : s[i] = s[j] => i = j}

InitSelect ==
    /\ tlog = <<>>
    /\ nodes \in NodeSeqs
    /\ storage = [id \in {} |-> ""]
    /\ spawned = <<>>
    /\ pc = [t \in Tasks |-> "idle"]
    /\ loc = [t \in Tasks |-> InitLoc]
    /\ calls = [t \in Tasks |-> <<>>]
    /\ ret = [t \in Tasks |-> NoResult]
    /\ nops = 0
    /\ handled = {}

NextSelect ==
    \/ \E t \in Callers, package_type \in PackageTypes,
          package_specific_id \in PackageSpecificIds, num_artifacts \in ArtifactCounts,
          build_id \in BuildIds :
          HandleBuildResult(t, build_id, package_type, package_specific_id, num_artifacts)
    \/ \E t \in Callers, package_type \in PackageTypes,
          package_specific_id \in PackageSpecificIds :
          RequestBuild(t, package_type, package_specific_id)
    \/ \E t \in Callers :
          \/ AddArtifact(t)
          \/ PutBuildArtifact(t)
          \/ Provide(t)
          \/ BroadcastArtifacts(t)
          \/ RequestBuildNodes(t)
          \/ RequestBuildVerify(t)
          \/ RequestBuildDispatch(t)

SpecSelect == InitSelect /\ [][NextSelect]_vars

\* Builds and status queries over any authorized nodes.
NextStatus ==
    \/ \E t \in Callers, package_type \in PackageTypes,
          package_specific_id \in PackageSpecificIds :
          RequestBuild(t, package_type, package_specific_id)
    \/ \E t \in Callers, build_id \in BuildIds : GetBuildStatus(t, build_id)
    \/ \E t \in Callers :
          \/ RequestBuildNodes(t)
          \/ RequestBuildVerify(t)
          \/ RequestBuildDispatch(t)
          \/ GetBuildStatusNodes(t)
          \/ GetBuildStatusDispatch(t)

SpecStatus == InitSelect /\ [][NextStatus]_vars

\* The node's inventory: build results and committed blocks arrive, and the
\* stored artifacts are announced.
NextLocal ==
    \/ \E t \in Callers, package_type \in PackageTypes,
          package_specific_id \in PackageSpecificIds, num_artifacts \in ArtifactCounts,
          build_id \in BuildIds :
          HandleBuildResult(t, build_id, package_type, package_specific_id, num_artifacts)
    \/ \E t \in Callers, payloads \in BlockPayloadLists : HandleBlockAdded(t, payloads)
    \/ \E t \in Callers : ProvideLocalArtifacts(t)
    \/ \E t \in Callers :
          \/ AddArtifact(t)
          \/ PutBuildArtifact(t)
          \/ Provide(t)
          \/ BroadcastArtifacts(t)
          \/ ProvideLocal(t)

SpecLocal == Init /\ [][NextLocal]_vars

\* Builds and status queries while the log learns of authorized nodes.
NextNodes ==
    \/ NextStatus
    \/ \E peer_id \in PeerIds : AddAuthorizedNode(peer_id)

SpecNodes == Init /\ [][NextNodes]_vars

\* get_artifact_or_build and its detached builds: blocks bring entries of
\* artifacts this node does not store, the caller names the package of the
\* entry or another one, and the runtime runs every spawned task: a task that
\* can take its next step does take it (the collaborators answer every call).
RequestedPackageIds == PackageSpecificIds \cup {"other_package"}

NextDetached ==
    \/ \E t \in Callers, payloads \in BlockPayloadLists : HandleBlockAdded(t, payloads)
    \/ \E t \in Callers, package_type \in PackageTypes,
          package_specific_id \in RequestedPackageIds,
          package_specific_artifact_id \in PackageSpecificArtifactIds :
          GetArtifactOrBuild(t, package_type, package_specific_id,
                             package_specific_artifact_id)
    \/ SpawnedBuildStart
    \/ \E peer_id \in PeerIds : AddAuthorizedNode(peer_id)
    \/ \E t \in Tasks :
          \/ GetArtifactLocal(t)
          \/ ListProviders(t)
          \/ GetIdlePeer(t)
          \/ RequestArtifact(t)
          \/ PutPeerArtifact(t)
          \/ RereadPeerArtifact(t)
          \/ RequestBuildNodes(t)
          \/ RequestBuildVerify(t)
          \/ RequestBuildDispatch(t)

SpecDetached ==
    /\ Init
    /\ [][NextDetached]_vars
    /\ WF_vars(SpawnedBuildStart)
    /\ WF_vars(RequestBuildNodes(Background))
    /\ WF_vars(RequestBuildVerify(Background))
    /\ WF_vars(RequestBuildDispatch(Background))

\* A build result is handled by one task while blocks arrive at another.
NextBlockRace ==
    \/ \E t \in Callers, package_type \in PackageTypes,
          package_specific_id \in PackageSpecificIds, num_artifacts \in ArtifactCounts,
          build_id \in BuildIds :
          HandleBuildResult(t, build_id, package_type, package_specific_id, num_artifacts)
    \/ \E t \in OtherCallers, payloads \in BlockPayloadLists : HandleBlockAdded(t, payloads)
    \/ \E t \in Tasks :
          \/ AddArtifact(t)
          \/ PutBuildArtifact(t)
          \/ Provide(t)
          \/ BroadcastArtifacts(t)

SpecBlockRace == Init /\ [][NextBlockRace]_vars

\* One node is authorized, this one or another.
InitBuildRace ==
    /\ tlog = <<>>
    /\ nodes \in {<<local_peer_id>>, <<"peerA">>}
    /\ storage = [id \in {} |-> ""]
    /\ spawned = <<>>
    /\ pc = [t \in Tasks |-> "idle"]
    /\ loc = [t \in Tasks |-> InitLoc]
    /\ calls = [t \in Tasks |-> <<>>]
    /\ ret = [t \in Tasks |-> NoResult]
    /\ nops = 0
    /\ handled = {}

\* The builds of a package yield one artifact each.
RaceArtifactCounts == {1}

\* Two tasks request builds and handle the results of two builds.
NextBuildRace ==
    \/ \E t \in AllCallers, package_type \in PackageTypes,
          package_specific_id \in PackageSpecificIds :
          RequestBuild(t, package_type, package_specific_id)
    \/ \E t \in AllCallers, package_type \in PackageTypes,
          package_specific_id \in PackageSpecificIds, num_artifacts \in RaceArtifactCounts,
          build_id \in RaceBuildIds :
          HandleBuildResult(t, build_id, package_type, package_specific_id, num_artifacts)
    \/ \E t \in Tasks :
          \/ RequestBuildNodes(t)
          \/ RequestBuildVerify(t)
          \/ RequestBuildDispatch(t)
          \/ AddArtifact(t)
          \/ PutBuildArtifact(t)
          \/ Provide(t)
          \/ BroadcastArtifacts(t)

SpecBuildRace == InitBuildRace /\ [][NextBuildRace]_vars

\* Two tasks get artifacts whose entries blocks brought; the node stores
\* none of them until a get fetches it.
NextFetchRace ==
    \/ \E t \in Callers, payloads \in BlockPayloadLists : HandleBlockAdded(t, payloads)
    \/ \E t \in AllCallers, package_type \in PackageTypes,
          package_specific_artifact_id \in PackageSpecificArtifactIds :
          GetArtifact(t, package_type, package_specific_artifact_id)
    \/ \E t \in Tasks :
          \/ GetArtifactLocal(t)
          \/ ListProviders(t)
          \/ GetIdlePeer(t)
          \/ RequestArtifact(t)
          \/ PutPeerArtifact(t)
          \/ RereadPeerArtifact(t)

SpecFetchRace == Init /\ [][NextFetchRace]_vars

\* get_logs_for_artifact(package_type, package_specific_id): the entries
\* search_transparency_logs answers, or its error. One collaborator call, so
\* one step.
GetLogsForArtifact(t, package_type, package_specific_id) ==
    LET l == [InitLoc EXCEPT !.op = "get_logs_for_artifact",
                             !.package_type = package_type,
                             !.package_specific_id = package_specific_id]
        transparency_logs == TLogSearch(tlog, package_type, package_specific_id)
    IN /\ CanStart(t)
       /\ nops' = nops + 1
       /\ \/ Return(t, Ok(transparency_logs),
                    [l EXCEPT !.transparency_log = transparency_logs],
                    <<Call("tlog.search_transparency_logs", package_specific_id,
                           ToString(Len(transparency_logs)))>>)
          \/ Return(t, Err("LogRead", <<"search_transparency_logs">>), l,
                    <<Call("tlog.search_transparency_logs", package_specific_id, "err")>>)
       /\ UNCHANGED <<tlog, nodes, storage, handled>>

\* Every public operation of the service, called by one task, with the
\* detached builds and the log learning of authorized nodes. Blocks carry one
\* payload.
NextService ==
    \/ \E t \in Callers, package_type \in PackageTypes,
          package_specific_artifact_id \in PackageSpecificArtifactIds :
          \/ GetArtifact(t, package_type, package_specific_artifact_id)
          \/ \E package_specific_id \in PackageSpecificIds :
                GetArtifactOrBuild(t, package_type, package_specific_id,
                                   package_specific_artifact_id)
    \/ \E t \in Callers, artifact_id \in LoggedArtifactIds :
          GetArtifactLocally(t, artifact_id)
    \/ \E t \in Callers, package_type \in PackageTypes,
          package_specific_id \in PackageSpecificIds :
          \/ RequestBuild(t, package_type, package_specific_id)
          \/ GetLogsForArtifact(t, package_type, package_specific_id)
          \/ \E num_artifacts \in ArtifactCounts, build_id \in BuildIds :
                HandleBuildResult(t, build_id, package_type, package_specific_id,
                                  num_artifacts)
    \/ \E t \in Callers, build_id \in BuildIds : GetBuildStatus(t, build_id)
    \/ \E t \in Callers, payload \in BlockPayloads : HandleBlockAdded(t, <<payload>>)
    \/ \E t \in Callers : ProvideLocalArtifacts(t)
    \/ SpawnedBuildStart
    \/ \E peer_id \in PeerIds : AddAuthorizedNode(peer_id)
    \/ \E t \in Tasks :
          \/ GetArtifactLocal(t)
          \/ ListProviders(t)
          \/ GetIdlePeer(t)
          \/ RequestArtifact(t)
          \/ PutPeerArtifact(t)
          \/ RereadPeerArtifact(t)
          \/ AddArtifact(t)
          \/ PutBuildArtifact(t)
          \/ Provide(t)
          \/ BroadcastArtifacts(t)
          \/ RequestBuildNodes(t)
          \/ RequestBuildVerify(t)
          \/ RequestBuildDispatch(t)
          \/ GetBuildStatusNodes(t)
          \/ GetBuildStatusDispatch(t)
          \/ ProvideLocal(t)

SpecService == Init /\ [][NextService]_vars

\* verify_artifact on its own, as the unit tests call it: any entry (hashes
\* of the blobs, of nothing, in upper case, cut short, empty) against any
\* bytes.
VerifyHashes == DeclaredHashes \cup {HexEncode(Sha2_256("")), "f01", ""}

VerifyBytes == Blobs \cup {""}

VerifyEntries ==
    {[artifact_id |-> ArtifactIdOf(1),
      package_type |-> package_type,
      package_specific_id |-> package_specific_id,
      num_artifacts |-> 1,
      package_specific_artifact_id |-> package_specific_artifact_id,
      artifact_hash |-> artifact_hash] :
        package_type \in PackageTypes, package_specific_id \in PackageSpecificIds,
        package_specific_artifact_id \in PackageSpecificArtifactIds,
        artifact_hash \in VerifyHashes}

InitVerify ==
    /\ tlog = <<>>
    /\ nodes = <<>>
    /\ storage = [id \in {} |-> ""]
    /\ spawned = <<>>
    /\ pc = [t \in Tasks |-> IF t \in Callers THEN "va_verify" ELSE "idle"]
    /\ \E transparency_log \in VerifyEntries, artifact \in VerifyBytes :
          loc = [t \in Tasks |->
                    IF t \in Callers
                    THEN [InitLoc EXCEPT !.op = "verify_artifact",
                                         !.transparency_log = <<transparency_log>>,
                                         !.artifact = artifact]
                    ELSE InitLoc]
    /\ calls = [t \in Tasks |-> <<>>]
    /\ ret = [t \in Tasks |-> NoResult]
    /\ nops = 1
    /\ handled = {}

\* verify_artifact(transparency_log, artifact).
VerifyArtifact(t) ==
    /\ pc[t] = "va_verify"
    /\ Return(t, verify_artifact(loc[t].transparency_log[1], loc[t].artifact),
              loc[t], calls[t])
    /\ UNCHANGED <<tlog, nodes, storage, nops, handled>>

NextVerify == \E t \in Callers : VerifyArtifact(t)

SpecVerify == InitVerify /\ [][NextVerify]_vars

\* ------------------------------------------------------------------ claims

CallsTo(cs, fns) == SelectSeq(cs, LAMBDA c : c.fn \in fns)

PeerFns == {"p2p.list_providers", "p2p.get_idle_peer", "p2p.request_artifact"}

StorageFns == {"storage.pull", "storage.push"}

DispatchFns == {"build.start_build", "p2p.request_build"}

\* Task t has returned from the operation op.
Returned(t, ops) == pc[t] = "idle" /\ loc[t].op \in ops

\* C1: whenever get_artifact returns successfully, the lowercase hex SHA-256
\* of the returned bytes equals the artifact_hash of the transparency log
\* entry of (package_type, package_specific_artifact_id) looked up at the
\* start of the call, whether the bytes came from local storage or a peer.
C1_GetArtifactReturnsVerifiedBytes ==
    \A t \in Tasks :
        (Returned(t, GetOps) /\ loc[t].result.ok) =>
            /\ loc[t].transparency_log =
                  TLogGetArtifact(tlog, loc[t].package_type,
                                  loc[t].package_specific_artifact_id)
            /\ HexEncode(Sha2_256(loc[t].result.val)) =
                  loc[t].transparency_log[1].artifact_hash

\* C1 witness: a get_artifact that succeeded with bytes fetched from a peer.
C1_Witness ==
    \E t \in Tasks :
        /\ Returned(t, {"get_artifact"})
        /\ ret[t].ok
        /\ CallsTo(calls[t], {"p2p.request_artifact"}) # <<>>

\* C2: in every reachable state, for every transparency log entry whose
\* artifact_id has a blob in local storage, the SHA-256 of the stored blob
\* equals the entry's artifact_hash.
C2_StoredBlobsMatchLog ==
    \A i \in 1..Len(tlog) :
        tlog[i].artifact_id \in DOMAIN storage =>
            HexEncode(Sha2_256(storage[tlog[i].artifact_id])) = tlog[i].artifact_hash

\* C3: a get_artifact that starts when the log has no entry for
\* (package_type, package_specific_artifact_id) returns the log's not-found
\* error at once, its only collaborator call is the log lookup (no storage
\* call, no network call), and the local storage is unchanged.
C3_NotFoundTouchesNothing ==
    [][\A t \in Callers :
          (/\ pc[t] = "idle"
           /\ nops' = nops + 1
           /\ loc'[t].op \in GetOps
           /\ TLogGetArtifact(tlog, loc'[t].package_type,
                              loc'[t].package_specific_artifact_id) = <<>>)
          => /\ pc'[t] = "idle"
             /\ loc'[t].result =
                   Err("ArtifactNotFound", <<loc'[t].package_specific_artifact_id>>)
             /\ CallsTo(calls'[t], StorageFns \cup PeerFns) = <<>>
             /\ CallsTo(calls'[t], {"tlog.get_artifact"}) =
                   <<Call("tlog.get_artifact", loc'[t].package_specific_artifact_id, "")>>
             /\ storage' = storage]_vars

\* C3 witness: a get_artifact has returned not-found.
C3_Witness ==
    \E t \in Tasks :
        /\ Returned(t, {"get_artifact"})
        /\ ~ret[t].ok
        /\ ret[t].err.kind = "ArtifactNotFound"

\* C4: after get_artifact_from_peers(artifact_id) has returned successfully,
\* local storage holds under artifact_id the bytes it returned, which is
\* what a get_artifact_locally(artifact_id) that follows reads and returns.
C4_PeerFetchWritesThrough ==
    \A t \in Tasks :
        (Returned(t, {"get_artifact_from_peers"}) /\ ret[t].ok) =>
            StoragePull(storage, loc[t].artifact_id) = <<ret[t].val>>

\* C4 witness: a get_artifact_from_peers that succeeded.
C4_Witness ==
    \E t \in Tasks :
        /\ Returned(t, {"get_artifact_from_peers"})
        /\ ret[t].ok
        /\ CallsTo(calls[t], {"p2p.request_artifact"}) # <<>>

\* C5: when a log entry exists with artifact_hash = sha256(B) and put_artifact
\* has stored B under the entry's artifact_id, the local read of get_artifact
\* for the entry's (package_type, package_specific_artifact_id) ends the call
\* with exactly B, and no peer was contacted.
C5_PutGetRoundTrip ==
    [][\A t \in Tasks :
          (/\ pc[t] = "ga_local"
           /\ pc'[t] # "ga_local"
           /\ loc[t].artifact_id \in DOMAIN storage
           /\ loc[t].transparency_log[1].artifact_hash =
                 HexEncode(Sha2_256(storage[loc[t].artifact_id])))
          => /\ pc'[t] = "idle"
             /\ loc'[t].result = Ok(storage[loc[t].artifact_id])
             /\ CallsTo(calls'[t], PeerFns) = <<>>]_vars

\* C5 witness: get_artifact returned the stored blob without any peer call.
C5_Witness ==
    \E t \in Tasks :
        /\ Returned(t, {"get_artifact"})
        /\ loc[t].artifact_id \in DOMAIN storage
        /\ ret[t] = Ok(storage[loc[t].artifact_id])
        /\ CallsTo(calls[t], PeerFns) = <<>>
        /\ CallsTo(calls[t], {"storage.pull"}) # <<>>

\* C6: get_artifact_or_build spawns a background request_build(package_type,
\* package_specific_id) if and only if its inner get_artifact returned an
\* error, of whatever kind, and then returns that same error; when
\* get_artifact succeeds no build is spawned and the bytes are returned.
C6_OrBuildSpawnsOnAnyError ==
    \A t \in Tasks :
        Returned(t, {"get_artifact_or_build"}) =>
            /\ ret[t] = loc[t].result
            /\ CallsTo(calls[t], {"tokio.spawn"}) =
                  IF loc[t].result.ok THEN <<>>
                  ELSE <<Call("tokio.spawn", loc[t].package_specific_id, "")>>

\* C6 witness: get_artifact_or_build failed with invalid-hash and spawned a build.
C6_Witness ==
    \E t \in Tasks :
        /\ Returned(t, {"get_artifact_or_build"})
        /\ ret[t].err.kind = "InvalidHash"
        /\ CallsTo(calls[t], {"tokio.spawn"}) # <<>>

\* C7: when the authorized-node set read from the log is empty, request_build
\* returns exactly InitializationFailed("No authorized nodes found"), whether
\* or not the package is logged, and makes no other call: no duplicate check,
\* no start_build, no p2p request_build.
C7_NoAuthorizedNodes ==
    \A t \in Tasks :
        (/\ loc[t].op = "request_build"
         /\ calls[t] # <<>>
         /\ calls[t][1] = Call("tlog.get_authorized_nodes", "", "0"))
        => /\ pc[t] = "idle"
           /\ ret[t] = Err("InitializationFailed", <<"No authorized nodes found">>)
           /\ Len(calls[t]) = 1

\* C7 witness: request_build of a package that is already logged found no
\* authorized nodes.
C7_Witness ==
    \E t \in Tasks :
        /\ Returned(t, {"request_build"})
        /\ calls[t] = <<Call("tlog.get_authorized_nodes", "", "0")>>
        /\ ~TLogPackageCanBeAdded(tlog, loc[t].package_type, loc[t].package_specific_id)

\* C8: for every non-empty sequence of authorized nodes, the dispatch
\* selection picks the local peer if it occurs anywhere in the sequence and
\* otherwise the last element of the sequence.
C8_DispatchSelection ==
    \A t \in Tasks :
        (loc[t].op = "request_build" /\ pc[t] \in {"rb_verify", "rb_dispatch"}) =>
            /\ nodes # <<>>
            /\ loc[t].peer_id = IF \E i \in 1..Len(nodes) : nodes[i] = local_peer_id
                                THEN local_peer_id
                                ELSE nodes[Len(nodes)]

\* C8 witness: the local peer is selected from the middle of the sequence.
C8_Witness ==
    \E t \in Tasks :
        /\ pc[t] = "rb_verify"
        /\ nodes = <<"peerA", local_peer_id, "peerB">>
        /\ loc[t].peer_id = local_peer_id

\* C9: if the duplicate check reports that the package is already logged,
\* request_build returns ArtifactAlreadyExists and dispatches no build:
\* neither start_build nor p2p request_build is called.
C9_DuplicateSuppressed ==
    \A t \in Tasks :
        (/\ loc[t].op = "request_build"
         /\ CallsTo(calls[t], {"tlog.verify_package_can_be_added"}) # <<>>
         /\ CallsTo(calls[t], {"tlog.verify_package_can_be_added"})[1].out = "already-exists")
        => /\ pc[t] = "idle"
           /\ ~ret[t].ok
           /\ ret[t].err.kind = "ArtifactAlreadyExists"
           /\ CallsTo(calls[t], DispatchFns) = <<>>

\* C9 witness: a request_build was refused as a duplicate.
C9_Witness ==
    \E t \in Tasks :
        /\ Returned(t, {"request_build"})
        /\ CallsTo(calls[t], {"tlog.verify_package_can_be_added"}) # <<>>
        /\ Last(calls[t]).out = "already-exists"
        /\ ret[t].err.kind = "ArtifactAlreadyExists"

\* C10: when the authorized set is non-empty and the duplicate check passes,
\* request_build makes exactly one dispatch call, start_build if the selected
\* peer is the local peer and otherwise p2p request_build to the selected
\* peer, and on success returns the string that call yielded.
C10_ExactlyOneDispatch ==
    \A t \in Tasks :
        LET dispatched == CallsTo(calls[t], DispatchFns)
            verified == CallsTo(calls[t], {"tlog.verify_package_can_be_added"})
        IN /\ Len(dispatched) <= 1
           /\ (/\ Returned(t, {"request_build"})
               /\ verified # <<>>
               /\ verified[1].out = "ok")
              => /\ Len(dispatched) = 1
                 /\ dispatched[1].fn = IF loc[t].peer_id = local_peer_id
                                       THEN "build.start_build"
                                       ELSE "p2p.request_build"
                 /\ dispatched[1].fn = "p2p.request_build" =>
                       dispatched[1].arg = loc[t].peer_id
                 /\ ret[t].ok => ret[t].val = dispatched[1].out

\* C10 witness: a build was requested from another authorized node and the
\* string it answered was returned.
C10_Witness ==
    \E t \in Tasks :
        /\ Returned(t, {"request_build"})
        /\ ret[t] = Ok("request_build_ok")
        /\ CallsTo(calls[t], DispatchFns) =
              <<Call("p2p.request_build", "peerB", "request_build_ok")>>

\* C11: in request_build every log-layer error (a failure of
\* get_authorized_nodes, or a failure of the duplicate check other than
\* "already logged") is returned as InitializationFailed, only a duplicate is
\* returned as ArtifactAlreadyExists, and a transport error of p2p
\* request_build is returned as InitializationFailed.
C11_LogErrorsAreInitializationFailed ==
    \A t \in Tasks :
        Returned(t, {"request_build"}) =>
            LET read == CallsTo(calls[t], {"tlog.get_authorized_nodes"})
                verified == CallsTo(calls[t], {"tlog.verify_package_can_be_added"})
                remote == CallsTo(calls[t], {"p2p.request_build"})
            IN /\ (read # <<>> /\ read[1].out = "err") =>
                     (~ret[t].ok /\ ret[t].err.kind = "InitializationFailed")
               /\ (verified # <<>> /\ verified[1].out = "log-read") =>
                     (~ret[t].ok /\ ret[t].err.kind = "InitializationFailed")
               /\ (~ret[t].ok /\ ret[t].err.kind = "ArtifactAlreadyExists") =>
                     (verified # <<>> /\ verified[1].out = "already-exists")
               /\ (remote # <<>> /\ remote[1].out = "") =>
                     ret[t] = Err("InitializationFailed", <<"transport">>)

\* C13: after a successful handle_build_result, for every artifact of the
\* build result the log has an entry with the artifact's id and declared hash,
\* and the storage holds under the entry's artifact_id a blob whose SHA-256 is
\* the declared hash. (Stated for declared hashes in lowercase hex only.)
C13_BuildResultStoredAsDeclared ==
    \A t \in Tasks :
        (Returned(t, {"handle_build_result"}) /\ ret[t].ok) =>
            \A i \in 1..Len(loc[t].build_result.artifacts) :
                LET a == loc[t].build_result.artifacts[i]
                IN a.artifact_hash \in {HexEncode(Sha2_256(b)) : b \in Blobs} =>
                      \E k \in 1..Len(tlog) :
                          /\ tlog[k].package_specific_artifact_id = a.artifact_specific_id
                          /\ tlog[k].artifact_hash = a.artifact_hash
                          /\ tlog[k].artifact_id \in DOMAIN storage
                          /\ HexEncode(Sha2_256(storage[tlog[k].artifact_id])) = a.artifact_hash

\* C16: get_artifact_from_peers asks at most one peer per call. When
\* get_idle_peer gives no peer the call ends with an error (not available on
\* the network, for no idle peer) without a request_artifact and without a
\* write to the storage; otherwise request_artifact is called once, on the
\* selected peer, and when it fails the call ends with that error, no other
\* provider is tried and the storage is unchanged.
C16_AtMostOnePeerAsked ==
    [][\A t \in Tasks :
          /\ Len(CallsTo(calls'[t], {"p2p.request_artifact"})) <= 1
          /\ (pc[t] = "gp_idle" /\ pc'[t] # "gp_idle" /\ loc[t].providers = {}) =>
                pc'[t] # "gp_request"
          /\ (pc[t] = "gp_idle" /\ pc'[t] \notin {"gp_idle", "gp_request"}) =>
                /\ pc'[t] = "idle"
                /\ loc'[t].result \in {NotAvailable(loc[t].artifact_id),
                                        Err("Transport", <<"get_idle_peer">>)}
                /\ CallsTo(calls'[t], {"p2p.request_artifact", "storage.push"}) = <<>>
                /\ storage' = storage
          /\ (pc[t] = "gp_request" /\ pc'[t] # "gp_request") =>
                /\ CallsTo(calls'[t], {"p2p.request_artifact"}) =
                      <<Call("p2p.request_artifact", loc[t].peer_id, loc[t].artifact_id)>>
                /\ pc'[t] # "gp_put" =>
                      /\ pc'[t] = "idle"
                      /\ loc'[t].result = Err("Transport", <<"request_artifact">>)
                      /\ CallsTo(calls'[t], {"storage.push"}) = <<>>
                      /\ storage' = storage]_vars

\* C16 witness: a peer fetch ended with the error of its one request_artifact.
C16_Witness ==
    \E t \in Tasks :
        /\ Returned(t, {"get_artifact_from_peers"})
        /\ ret[t] = Err("Transport", <<"request_artifact">>)
        /\ Len(CallsTo(calls[t], {"p2p.request_artifact"})) = 1

\* C18: in get_artifact the peers are contacted only when the local read
\* fails: when the blob is in the local storage the call ends at the local
\* read with no list_providers, get_idle_peer or request_artifact, and when
\* the bytes read fail verification it ends with InvalidHash, without a
\* fetch from the peers and without a write to the storage.
C18_LocalHitNeverAsksPeers ==
    [][\A t \in Tasks :
          (/\ pc[t] = "ga_local"
           /\ pc'[t] # "ga_local"
           /\ loc[t].artifact_id \in DOMAIN storage)
          => LET blob == storage[loc[t].artifact_id]
                 entry == loc[t].transparency_log[1]
             IN /\ pc'[t] = "idle"
                /\ CallsTo(calls'[t], PeerFns \cup {"storage.push"}) = <<>>
                /\ storage' = storage
                /\ loc'[t].result =
                      IF HexEncode(Sha2_256(blob)) = entry.artifact_hash
                      THEN Ok(blob)
                      ELSE Err("InvalidHash", <<entry.package_specific_artifact_id,
                                                HexEncode(Sha2_256(blob)),
                                                entry.artifact_hash>>)]_vars

\* C18 witness: get_artifact read a local blob that failed verification and
\* returned InvalidHash having asked no peer.
C18_Witness ==
    \E t \in Tasks :
        /\ Returned(t, {"get_artifact"})
        /\ ~ret[t].ok
        /\ ret[t].err.kind = "InvalidHash"
        /\ calls[t] = <<Call("tlog.get_artifact", loc[t].package_specific_artifact_id, ""),
                        Call("storage.pull", loc[t].artifact_id, "")>>

\* C20: within one handle_build_result the artifacts are processed in their
\* declared order and one at a time: the calls are add_artifact, push under
\* the new entry's artifact_id, provide of that artifact_id, for artifact 1,
\* then the same for artifact 2, and so on; every add_artifact request carries
\* num_artifacts = the number of artifacts of the build result.
C20_ArtifactsInDeclaredOrder ==
    \A t \in Tasks :
        loc[t].op = "handle_build_result" =>
            LET cs == calls[t]
                r == loc[t].build_result
                EntryId(i) == TLogGetArtifact(tlog, r.package_type,
                                              r.artifacts[i].artifact_specific_id)[1].artifact_id
            IN /\ Len(r.artifacts) <= r.num_artifacts
               /\ (pc[t] = "idle" /\ ret[t].ok) => Len(r.artifacts) = r.num_artifacts
               /\ \A k \in 1..Len(cs) :
                     LET i == ((k - 1) \div 3) + 1
                     IN IF cs[k].fn = "tlog.broadcast_artifacts"
                        THEN k = Len(cs) /\ k = 3 * r.num_artifacts + 1
                        ELSE /\ i <= Len(r.artifacts)
                             /\ cs[k] =
                                  CASE (k - 1) % 3 = 0 ->
                                         Call("tlog.add_artifact",
                                              r.artifacts[i].artifact_specific_id,
                                              ToString(r.num_artifacts))
                                    [] (k - 1) % 3 = 1 -> Call("storage.push", EntryId(i), "")
                                    [] OTHER -> Call("p2p.provide", EntryId(i), "")

\* C20 witness: a build result of two artifacts was handled to the end.
C20_Witness ==
    \E t \in Tasks :
        /\ Returned(t, {"handle_build_result"})
        /\ ret[t].ok
        /\ Len(loc[t].build_result.artifacts) = 2
        /\ Len(calls[t]) = 7

StatusFns == {"build.get_build_status", "p2p.request_build_status"}

\* C12: get_build_status selects its peer as request_build does (the local
\* peer if it is among the authorized nodes, else the last node); it asks
\* build_event_client.get_build_status if that peer is local and otherwise
\* p2p request_build_status on that peer, returns the status string it got
\* unchanged, and returns failures of get_authorized_nodes and of the remote
\* request as BuildStatusFailed.
C12_StatusFollowsDispatchSelection ==
    \A t \in Tasks :
        loc[t].op = "get_build_status" =>
            LET asked == CallsTo(calls[t], StatusFns)
                read == CallsTo(calls[t], {"tlog.get_authorized_nodes"})
            IN /\ Len(asked) <= 1
               /\ (pc[t] = "bs_dispatch" \/ asked # <<>>) =>
                     /\ nodes # <<>>
                     /\ loc[t].peer_id = IF \E i \in 1..Len(nodes) : nodes[i] = local_peer_id
                                         THEN local_peer_id
                                         ELSE nodes[Len(nodes)]
               /\ asked # <<>> =>
                     asked[1].fn = IF loc[t].peer_id = local_peer_id
                                   THEN "build.get_build_status"
                                   ELSE "p2p.request_build_status"
               /\ (asked # <<>> /\ asked[1].fn = "p2p.request_build_status") =>
                     asked[1].arg = loc[t].peer_id
               /\ (pc[t] = "idle" /\ ret[t].ok) =>
                     (asked # <<>> /\ ret[t].val = asked[1].out)
               /\ (pc[t] = "idle" /\ read[1].out = "err") =>
                     (~ret[t].ok /\ ret[t].err.kind = "BuildStatusFailed" /\ asked = <<>>)
               /\ (pc[t] = "idle" /\ asked # <<>>
                      /\ asked[1] = Call("p2p.request_build_status", loc[t].peer_id, "")) =>
                     (~ret[t].ok /\ ret[t].err.kind = "BuildStatusFailed")

\* C12 witness: with the local peer not authorized, the status came from the
\* last authorized node.
C12_Witness ==
    \E t \in Tasks :
        /\ Returned(t, {"get_build_status"})
        /\ nodes = <<"peerB", "peerA">>
        /\ ret[t] = Ok("SUCCESS")
        /\ calls[t][2] = Call("p2p.request_build_status", "peerA", "SUCCESS")

\* C19: the panic of the dispatch selection is unreachable, in request_build
\* and in get_build_status, also when the log answers with no authorized
\* nodes.
C19_SelectionPanicUnreachable ==
    \A t \in Tasks : pc[t] # "panicked"

\* Task t starts and finishes handle_block_added in this step.
BlockAddedStep(t) ==
    pc[t] = "idle" /\ nops' = nops + 1 /\ loc'[t].op = "handle_block_added"

\* C14 as stated: handle_block_added calls write_if_not_exists exactly once,
\* with the entry deserialized from the payload, when the payload list has
\* exactly one element; with zero or more than one element it returns Ok and
\* leaves the transparency log and the local storage unchanged.
C14_OnePayloadOneWrite ==
    [][\A t \in Callers :
          BlockAddedStep(t) =>
             LET payloads == loc'[t].payloads
                 written == CallsTo(calls'[t], {"tlog.write_if_not_exists"})
             IN IF Len(payloads) = 1
                THEN /\ Len(written) = 1
                     /\ loc'[t].transparency_log = Deserialize(payloads[1])
                ELSE /\ written = <<>>
                     /\ loc'[t].result = Ok("")
                     /\ tlog' = tlog
                     /\ storage' = storage]_vars

\* C14, amended: when the payload list has exactly one element and that
\* element deserializes to an entry, handle_block_added calls
\* write_if_not_exists exactly once, with that entry; when the one element
\* does not deserialize it returns the error without calling
\* write_if_not_exists and leaves the log unchanged; with zero or more than
\* one element it returns Ok and leaves the log unchanged. The local storage
\* is unchanged in every case.
C14_OneEntryOneWrite ==
    [][\A t \in Callers :
          BlockAddedStep(t) =>
             LET payloads == loc'[t].payloads
                 written == CallsTo(calls'[t], {"tlog.write_if_not_exists"})
                 found == Deserialize(payloads[1])
             IN /\ storage' = storage
                /\ pc'[t] = "idle"
                /\ IF Len(payloads) = 1
                   THEN IF found # <<>>
                        THEN /\ written = <<Call("tlog.write_if_not_exists",
                                                  found[1].artifact_id, found[1].artifact_hash)>>
                             /\ loc'[t].transparency_log = found
                             /\ tlog' = IF loc'[t].result.ok
                                        THEN TLogWriteIfNotExists(tlog, found[1])
                                        ELSE tlog
                        ELSE /\ written = <<>>
                             /\ ~loc'[t].result.ok
                             /\ tlog' = tlog
                   ELSE /\ written = <<>>
                        /\ loc'[t].result = Ok("")
                        /\ tlog' = tlog]_vars

\* C14 witness: a block with one entry was written to a log that has an
\* entry of a build, and a block of two payloads was dropped after it.
C14_Witness ==
    \E t \in Tasks :
        /\ Returned(t, {"handle_block_added"})
        /\ Len(loc[t].payloads) = 2
        /\ ret[t].ok
        /\ Len(tlog) = 2
        /\ \E k \in 1..Len(tlog) : Payload(tlog[k]) \in BlockPayloads

\* C15: handle_block_added is idempotent: applying it again with the same
\* single-entry payload, after an application that returned Ok, leaves the
\* transparency log as the first application left it.
C15_BlockAddedIdempotent ==
    [][\A t \in Callers :
          (/\ BlockAddedStep(t)
           /\ loc[t].op = "handle_block_added"
           /\ ret[t].ok
           /\ loc'[t].payloads = loc[t].payloads
           /\ Len(loc[t].payloads) = 1)
          => tlog' = tlog]_vars

\* C15 witness: the same single-entry payload was applied three times in a
\* row and the log holds its entry once.
C15_Witness ==
    \E t \in Tasks :
        /\ Returned(t, {"handle_block_added"})
        /\ ret[t].ok
        /\ loc[t].applied = 3
        /\ Len(loc[t].payloads) = 1
        /\ tlog = Deserialize(loc[t].payloads[1])

\* C17: provide_local_artifacts calls p2p provide once for each file the
\* storage lists, with the file's stem as the artifact id, in listing order;
\* a failed provide ends the operation with that error and no later file is
\* provided; when all succeed it returns Ok and every stored artifact id has
\* been announced.
C17_ProvidesEachListedFile ==
    \A t \in Tasks :
        loc[t].op = "provide_local_artifacts" =>
            LET paths == loc[t].paths
                provided == CallsTo(calls[t], {"p2p.provide"})
                listed == CallsTo(calls[t], {"storage.list_artifacts"})
            IN /\ Len(provided) <= Len(paths)
               /\ \A k \in 1..Len(provided) :
                     /\ provided[k].arg = FileStem(paths[k])
                     /\ provided[k].out = "err" =>
                           /\ k = Len(provided)
                           /\ pc[t] = "idle"
                           /\ ret[t] = Err("Transport", <<"provide">>)
               /\ (listed # <<>> /\ listed[1].out # "err") =>
                     /\ {FileStem(paths[k]) : k \in 1..Len(paths)} = DOMAIN storage
                     /\ Len(paths) = Cardinality(DOMAIN storage)
               /\ (pc[t] = "idle" /\ ret[t].ok) =>
                     /\ Len(provided) = Len(paths)
                     /\ {provided[k].arg : k \in 1..Len(provided)} = DOMAIN storage
                     /\ \A k \in 1..Len(provided) : provided[k].out = "ok"

\* C17 witness: of two stored files the first was provided and the second
\* failed.
C17_Witness ==
    \E t \in Tasks :
        /\ Returned(t, {"provide_local_artifacts"})
        /\ Len(loc[t].paths) = 2
        /\ Len(CallsTo(calls[t], {"p2p.provide"})) = 2
        /\ ret[t] = Err("Transport", <<"provide">>)

\* The log entry handle_build_result made for artifact i of task t's build
\* result.
BuildEntry(t, i) ==
    TLogGetArtifact(tlog, loc[t].build_result.package_type,
                    loc[t].build_result.artifacts[i].artifact_specific_id)[1]

\* C21: handle_build_result calls broadcast_artifacts exactly once, only
\* after every artifact has been logged, stored and provided, with one payload
\* per artifact in declared order, the payloads add_artifact returned; when a
\* per-artifact step fails broadcast_artifacts is never called.
C21_BroadcastOnceAfterAll ==
    \A t \in Tasks :
        loc[t].op = "handle_build_result" =>
            LET r == loc[t].build_result
                broadcast == CallsTo(calls[t], {"tlog.broadcast_artifacts"})
            IN /\ Len(broadcast) <= 1
               /\ (pc[t] = "idle" /\ ret[t].ok) => Len(broadcast) = 1
               /\ (pc[t] = "idle" /\ Len(calls[t]) < 3 * r.num_artifacts + 1) =>
                     (broadcast = <<>> /\ ~ret[t].ok)
               /\ broadcast # <<>> =>
                     /\ pc[t] = "idle"
                     /\ Len(calls[t]) = 3 * r.num_artifacts + 1
                     /\ Len(CallsTo(calls[t], {"tlog.add_artifact"})) = r.num_artifacts
                     /\ Len(CallsTo(calls[t], {"storage.push"})) = r.num_artifacts
                     /\ Len(CallsTo(calls[t], {"p2p.provide"})) = r.num_artifacts
                     /\ Last(calls[t]) = Call("tlog.broadcast_artifacts", "",
                                              ToString(r.num_artifacts))
                     /\ Len(r.artifacts) = r.num_artifacts
                     /\ loc[t].payloads =
                           [i \in 1..r.num_artifacts |-> Payload(BuildEntry(t, i))]

\* C21 witness: the payloads of two artifacts were broadcast.
C21_Witness ==
    \E t \in Tasks :
        /\ Returned(t, {"handle_build_result"})
        /\ Len(loc[t].payloads) = 2
        /\ Last(calls[t]) = Call("tlog.broadcast_artifacts", "", "2")
        /\ ret[t].ok

\* C22: when a step of handle_build_result fails at artifact i (add_artifact,
\* opening or pushing the file, provide), the error is returned, no call is
\* made for a later artifact and none to broadcast_artifacts, and the log
\* entries and stored blobs of the artifacts before i stay as they are: the
\* failing step changes neither the log nor the storage.
C22_FailureStopsWithoutRollback ==
    [][\A t \in Tasks :
          (/\ pc[t] \in {"hbr_add", "hbr_put", "hbr_provide"}
           /\ pc'[t] = "idle")
          => LET i == loc'[t].i
                 r == loc'[t].build_result
             IN /\ ~loc'[t].result.ok
                /\ ret'[t] = loc'[t].result
                /\ tlog' = tlog
                /\ storage' = storage
                /\ CallsTo(calls'[t], {"tlog.broadcast_artifacts"}) = <<>>
                /\ Len(r.artifacts) = i
                /\ Len(calls'[t]) <= 3 * i
                /\ \A j \in 1..(i - 1) :
                      \E k \in 1..Len(tlog') :
                          /\ tlog'[k].package_type = r.package_type
                          /\ tlog'[k].package_specific_artifact_id =
                                r.artifacts[j].artifact_specific_id
                          /\ tlog'[k].artifact_hash = r.artifacts[j].artifact_hash
                          /\ StoragePull(storage', tlog'[k].artifact_id) =
                                FileContent(r.artifacts[j].artifact_location)]_vars

\* C22 witness: the second artifact's file could not be stored; the first
\* artifact's entry and blob are in place, and so is the second's entry.
C22_Witness ==
    \E t \in Tasks :
        /\ Returned(t, {"handle_build_result"})
        /\ loc[t].i = 2
        /\ ret[t] = Err("StorageIo", <<"Error from put_artifact">>)
        /\ Len(tlog) = 2
        /\ DOMAIN storage = {tlog[1].artifact_id}

\* C28: verify_artifact(entry, bytes) returns Ok exactly when the lowercase
\* hex SHA-256 of bytes equals entry.artifact_hash; otherwise it returns
\* InvalidHash with id = entry.package_specific_artifact_id, invalid_hash = the
\* computed hash and actual_hash = entry.artifact_hash.
C28_VerifyArtifactComparesHash ==
    \A t \in Tasks :
        Returned(t, {"verify_artifact"}) =>
            LET entry == loc[t].transparency_log[1]
                computed == HexEncode(Sha2_256(loc[t].artifact))
            IN /\ ret[t].ok <=> (computed = entry.artifact_hash)
               /\ ret[t].ok => ret[t] = Ok("")
               /\ ~ret[t].ok =>
                     ret[t].err = [kind |-> "InvalidHash",
                                   info |-> <<entry.package_specific_artifact_id,
                                              computed, entry.artifact_hash>>]
               /\ calls[t] = <<>>

\* C28 witness: bytes checked against an entry that records the hash of
\* other bytes.
C28_Witness ==
    \E t \in Tasks :
        /\ Returned(t, {"verify_artifact"})
        /\ loc[t].artifact = "OTHER_SAMPLE_DATA"
        /\ loc[t].transparency_log[1].artifact_hash = HexEncode(Sha2_256("SAMPLE_DATA"))
        /\ ~ret[t].ok

\* The operations that select among the authorized nodes.
NodeOps == {"request_build", "get_build_status"}

\* The node a call selects from the authorized nodes auth_nodes.
SelectedFrom(auth_nodes) ==
    IF local_peer_id \in Range(auth_nodes) THEN local_peer_id ELSE auth_nodes[Len(auth_nodes)]

\* C27: the set of authorized nodes is never cached: every request_build and
\* every get_build_status reads it from the log during that call, before it
\* dispatches, so that the call selects from the nodes the log holds at that
\* moment, every node added before included.
C27_AuthorizedNodesReadPerCall ==
    /\ [](\A t \in Tasks :
            (loc[t].op \in NodeOps /\ calls[t] # <<>>) =>
                /\ calls[t][1].fn = "tlog.get_authorized_nodes"
                /\ Len(CallsTo(calls[t], {"tlog.get_authorized_nodes"})) = 1
                /\ CallsTo(calls[t], DispatchFns \cup StatusFns) # <<>> =>
                      \E k \in 1..Len(nodes) :
                          /\ calls[t][1].out = ToString(k)
                          /\ loc[t].peer_id = SelectedFrom(SubSeq(nodes, 1, k)))
    /\ [][\A t \in Tasks :
             (pc[t] \in {"rb_nodes", "bs_nodes"} /\ pc'[t] # pc[t]) =>
                 \/ calls'[t] = <<Call("tlog.get_authorized_nodes", "", "err")>>
                 \/ /\ calls'[t] = <<Call("tlog.get_authorized_nodes", "",
                                           ToString(Len(nodes)))>>
                    /\ nodes # <<>> =>
                          /\ pc'[t] \in {"rb_verify", "bs_dispatch"}
                          /\ loc'[t].peer_id = SelectedFrom(nodes)]_vars

\* C27 witness: a build requested after two nodes were added, neither of
\* them the local one, went to the node added last.
C27_Witness ==
    \E t \in Tasks :
        /\ Returned(t, {"request_build"})
        /\ nodes = <<"peerA", "peerB">>
        /\ calls[t][1] = Call("tlog.get_authorized_nodes", "", "2")
        /\ Last(calls[t]).fn = "p2p.request_build"
        /\ Last(calls[t]).arg = "peerB"
        /\ ret[t].ok

\* C29: when get_artifact fetches bytes from a peer and they fail the
\* verification, the bytes are in the local storage under the artifact_id by
\* then; and a get_artifact that finds bytes stored under the artifact_id that
\* do not match the entry fails with the invalid-hash error after its local
\* read, contacting no peer and leaving the stored bytes as they are, so that
\* every later get_artifact for the artifact fails the same way.
C29_InvalidPeerBytesStay ==
    /\ [](\A t \in Tasks :
            (/\ Returned(t, GetOps)
             /\ ret[t].err.kind = "InvalidHash"
             /\ CallsTo(calls[t], {"p2p.request_artifact"}) # <<>>)
            => /\ StoragePull(storage, loc[t].artifact_id) = <<loc[t].artifact>>
               /\ HexEncode(Sha2_256(loc[t].artifact)) = ret[t].err.info[2]
               /\ HexEncode(Sha2_256(loc[t].artifact)) #
                     loc[t].transparency_log[1].artifact_hash)
    /\ [][\A t \in Tasks :
             (/\ pc[t] = "ga_local"
              /\ pc'[t] # pc[t]
              /\ loc[t].artifact_id \in DOMAIN storage
              /\ HexEncode(Sha2_256(storage[loc[t].artifact_id])) #
                    loc[t].transparency_log[1].artifact_hash)
             => /\ pc'[t] = "idle"
                /\ ret'[t] = verify_artifact(loc[t].transparency_log[1],
                                             storage[loc[t].artifact_id])
                /\ ret'[t].err.kind = "InvalidHash"
                /\ CallsTo(calls'[t], PeerFns \cup {"storage.push"}) = <<>>
                /\ storage' = storage]_vars

\* C29 witness: a peer sent bytes that do not match the entry; get_artifact
\* failed and the bytes are stored.
C29_Witness ==
    \E t \in Tasks :
        /\ Returned(t, {"get_artifact"})
        /\ ret[t].err.kind = "InvalidHash"
        /\ Len(CallsTo(calls[t], {"p2p.request_artifact"})) = 1
        /\ Len(CallsTo(calls[t], {"storage.push"})) = 1
        /\ StoragePull(storage, loc[t].artifact_id) = <<"OTHER_SAMPLE_DATA">>
        /\ loc[t].transparency_log[1].artifact_hash = HexEncode(Sha2_256("SAMPLE_DATA"))

\* Task t returns from get_artifact_or_build in this step: from a later
\* call of the operation, or from the lookup that starts it.
OrBuildReturns(t) ==
    /\ loc'[t].op = "get_artifact_or_build"
    /\ pc'[t] = "idle"
    /\ pc[t] # "idle" \/ (nops' = nops + 1 /\ nodes' = nodes)

\* The background task takes a step.
BackgroundStep ==
    \/ pc'[Background] # pc[Background]
    \/ loc'[Background] # loc[Background]
    \/ calls'[Background] # calls[Background]
    \/ ret'[Background] # ret[Background]

\* C26: the spawned build is detached. get_artifact_or_build returns
\* get_artifact's error in the step that spawns the build, without the build
\* having taken a step; no step of the build changes what a caller was
\* returned; and under fair scheduling every spawned request_build is
\* eventually started and runs to completion, whatever the caller does.
C26_SpawnedBuildDetached ==
    /\ [][\A t \in Callers :
             OrBuildReturns(t) =>
                 /\ ret'[t] = loc'[t].result
                 /\ ~BackgroundStep
                 /\ IF ret'[t].ok
                    THEN spawned' = spawned
                    ELSE spawned' = Append(spawned,
                             [package_type |-> loc'[t].package_type,
                              package_specific_id |-> loc'[t].package_specific_id])]_vars
    /\ [][BackgroundStep =>
             \A t \in Callers : ret'[t] = ret[t] /\ pc'[t] = pc[t] /\ loc'[t] = loc[t]]_vars
    /\ (spawned # <<>>) ~>
           (/\ spawned = <<>>
            /\ Returned(Background, {"request_build"})
            /\ ret[Background] # NoResult)

\* C26 witness: the caller was told the artifact is not found, and the build
\* spawned for it has been dispatched since.
C26_Witness ==
    \E t \in Callers :
        /\ Returned(t, {"get_artifact_or_build"})
        /\ ret[t].err.kind = "ArtifactNotFound"
        /\ spawned = <<>>
        /\ Returned(Background, {"request_build"})
        /\ loc[Background].package_specific_id = loc[t].package_specific_id
        /\ ret[Background].ok

\* C30: when get_artifact_or_build fails after the log entry was found and
\* the caller's package_specific_id is the one the entry records, the
\* request_build it spawned never dispatches: it ends with
\* ArtifactAlreadyExists, or with InitializationFailed when the authorized
\* nodes cannot be had. (With nothing left in the queue the build the
\* background task runs is the one the caller's last call spawned.)
C30_FoundEntryNeverDispatches ==
    \A t \in Callers :
        (/\ Returned(t, {"get_artifact_or_build"})
         /\ ~ret[t].ok
         /\ loc[t].transparency_log # <<>>
         /\ loc[t].transparency_log[1].package_specific_id = loc[t].package_specific_id
         /\ spawned = <<>>)
        => /\ loc[Background].op = "request_build"
           /\ loc[Background].package_type = loc[t].package_type
           /\ loc[Background].package_specific_id = loc[t].package_specific_id
           /\ pc[Background] \in {"rb_nodes", "rb_verify", "idle"}
           /\ CallsTo(calls[Background], DispatchFns) = <<>>
           /\ pc[Background] = "idle" =>
                 /\ ~ret[Background].ok
                 /\ ret[Background].err.kind \in {"ArtifactAlreadyExists",
                                                   "InitializationFailed"}
                 /\ ret[Background].err.kind = "InitializationFailed" =>
                       Len(calls[Background]) = 1

\* C30 witness: the entry was found, no peer had the artifact, and the
\* spawned build ended at the duplicate check.
C30_Witness ==
    \E t \in Callers :
        /\ Returned(t, {"get_artifact_or_build"})
        /\ ret[t].err.kind = "NotAvailableOnNetwork"
        /\ loc[t].transparency_log # <<>>
        /\ loc[t].transparency_log[1].package_specific_id = loc[t].package_specific_id
        /\ spawned = <<>>
        /\ Returned(Background, {"request_build"})
        /\ ret[Background] = Err("ArtifactAlreadyExists", <<"already-exists">>)

\* No two entries of the log are for the same (package_type,
\* package_specific_artifact_id).
LogKeysUnique ==
    \A i, j \in 1..Len(tlog) :
        (/\ tlog[i].package_type = tlog[j].package_type
         /\ tlog[i].package_specific_artifact_id = tlog[j].package_specific_artifact_id)
        => i = j

\* C23: under every interleaving of handle_block_added and
\* handle_build_result on the same artifact the log holds at most one entry
\* per (package_type, package_specific_artifact_id), and an entry, once in the
\* log, is never changed or replaced.
C23_OneEntryPerArtifactKept ==
    /\ []LogKeysUnique
    /\ [][/\ Len(tlog') >= Len(tlog)
          /\ \A i \in 1..Len(tlog) : tlog'[i] = tlog[i]]_vars

\* C23 witness: while a build result was being handled a block brought the
\* entry of its second artifact; the build's first entry and the block's entry
\* are in the log, and add_artifact refused the second artifact.
C23_Witness ==
    \E t \in Callers, u \in OtherCallers :
        /\ Returned(t, {"handle_build_result"})
        /\ loc[t].i = 2
        /\ Last(calls[t]).fn = "tlog.add_artifact"
        /\ ret[t].err.kind = "LogDuplicate"
        /\ Returned(u, {"handle_block_added"})
        /\ ret[u].ok
        /\ Len(tlog) = 2
        /\ tlog[1].artifact_id = ArtifactIdOf(1)
        /\ tlog[2] = loc[u].transparency_log[1]
        /\ tlog[2].package_type = loc[t].build_result.package_type
        /\ tlog[2].package_specific_artifact_id =
              loc[t].build_result.artifacts[2].artifact_specific_id

PassedAndDispatched(t) ==
    /\ Returned(t, {"request_build"})
    /\ ret[t].ok
    /\ Len(calls[t]) = 3
    /\ calls[t][2] = Call("tlog.verify_package_can_be_added", loc[t].package_specific_id, "ok")
    /\ calls[t][3].fn \in DispatchFns

FetchedCorrect(t) ==
    /\ Returned(t, {"get_artifact"})
    /\ loc[t].fetched # ""
    /\ HexEncode(Sha2_256(loc[t].fetched)) = loc[t].transparency_log[1].artifact_hash

StepOf(t) ==
    \/ pc'[t] # pc[t]
    \/ loc'[t] # loc[t]
    \/ calls'[t] # calls[t]
    \/ ret'[t] # ret[t]

\* The operations that read only.
ReadOnlyOps ==
    {"request_build", "get_build_status", "get_logs_for_artifact", "provide_local_artifacts"}

\* C31: request_build, get_build_status, get_logs_for_artifact and
\* provide_local_artifacts leave the log entries and the blob store unchanged
\* on every path, and get_artifact leaves the log unchanged; the log entries
\* change only in handle_build_result's add_artifact and in
\* handle_block_added's write_if_not_exists, and blobs are written only by
\* handle_build_result and by the peer-fetch branch of get_artifact.
C31_FrameEffects ==
    [][/\ \A t \in Tasks :
             StepOf(t) =>
                 /\ loc'[t].op \in ReadOnlyOps => (tlog' = tlog /\ storage' = storage)
                 /\ loc'[t].op \in GetOps \cup {"get_artifact_locally"} => tlog' = tlog
       /\ tlog' # tlog =>
             \E t \in Tasks :
                 /\ StepOf(t)
                 /\ \/ /\ loc'[t].op = "handle_build_result"
                       /\ pc[t] = "hbr_add"
                       /\ Last(calls'[t]).fn = "tlog.add_artifact"
                    \/ /\ loc'[t].op = "handle_block_added"
                       /\ Last(calls'[t]).fn = "tlog.write_if_not_exists"
       /\ storage' # storage =>
             \E t \in Tasks :
                 /\ StepOf(t)
                 /\ Last(calls'[t]).fn = "storage.push"
                 /\ \/ loc'[t].op = "handle_build_result" /\ pc[t] = "hbr_put"
                    \/ /\ loc'[t].op \in GetOps
                       /\ pc[t] = "gp_put"
                       /\ CallsTo(calls[t], {"p2p.request_artifact"}) # <<>>]_vars

\* C31 witness: with two artifacts logged and stored, the logs of their
\* package were read.
C31_Witness ==
    \E t \in Tasks :
        /\ Returned(t, {"get_logs_for_artifact"})
        /\ ret[t].ok
        /\ Len(loc[t].transparency_log) = 2
        /\ Len(tlog) = 2
        /\ Cardinality(DOMAIN storage) = 2

====
